---------------------------- MODULE Spec2Model ----------------------------
(***************************************************************************)
(* Model of the chart computation engine of hdkit                          *)
(* (src/lib/hdkit-calculator.js): the coordinate encoder, the channel      *)
(* resolver, the type/authority classifier, the center resolver, the       *)
(* composite of two charts, the design-moment solver, calculateChart with  *)
(* its position loops (one invocation after another, and two in flight     *)
(* together), the assembly of a chart from its gates, the derived bodies,  *)
(* the profile and incarnation cross, and the two routes of the API.       *)
(* Each component has its own specification.                               *)
(*                                                                         *)
(* Julian days are counted in ticks of 0.05 day.  The ephemeris is a       *)
(* deterministic function of body and instant, fixed in the initial state. *)
(*                                                                         *)
(* Longitudes are JavaScript numbers in the source.  They are modelled on  *)
(* an exact rational grid: one unit is 1/(192*Res) degree, so that the     *)
(* circle has 69120*Res units and every gate, line, color, tone and base   *)
(* boundary is a grid point.  Arithmetic on the grid is exact; the         *)
(* rounding of IEEE doubles is not modelled.                               *)
(***************************************************************************)
EXTENDS Integers, Sequences, FiniteSets, TLC

VARIABLES
    longitude,          \* argument of createSwissEphPlanetData, in grid units
    activation,         \* the planet data it returns
    personalityPlanets, \* body -> Gate, Personality side
    designPlanets,      \* body -> Gate, Design side
    gates,              \* result of extractGates (sorted array)
    channels,           \* result of calculateChannels / argument of determineType
    definedCenters,     \* argument of determineType and determineAuthority
    type,               \* result of determineType
    typeReturn,         \* which return statement of determineType was taken
    authority,          \* result of determineAuthority
    openCenters,        \* result of calculateOpenCenters
    chart1,             \* first argument of calculateComposite
    chart2,             \* second argument of calculateComposite
    composite,          \* result of calculateComposite
    provider,           \* the answers of the ephemeris (swe_calc)
    solver,             \* the locals of findDesignDate and its position
    calls,              \* the invocations of calculateChart, by number
    cross,              \* arguments and results of the profile and cross
    request,            \* the request a route handler is serving
    calculator,         \* the fields of the shared HDKitCalculator instance
    done                \* the operations that have returned

vars == <<longitude, activation, personalityPlanets, designPlanets, gates,
          channels, definedCenters, type, typeReturn, authority,
          openCenters, chart1, chart2, composite, provider, solver, calls, cross, request,
          calculator, done>>

encoderVars == <<longitude, activation>>
resolverVars == <<personalityPlanets, designPlanets, gates>>
classifierVars == <<definedCenters, type, typeReturn, authority>>
\* the variables of the components modelled after the classifier
compositeVars == <<chart1, chart2, composite>>
solverVars == <<provider, solver>>
chartVars == <<calls>>
lateVars == <<cross, request, calculator>>
extVars == <<openCenters, compositeVars, solverVars, chartVars, lateVars>>

---------------------------------------------------------------------------
(* Bounds *)

\* grid points per base cell (a base cell is 1/192 degree)
Res == 1

\* bodies per side in the inputs of extractGates that carry several gates
NBodies == 2

\* longest channel list given to determineType
MaxChannels == 1

\* longest list of formed channels given to calculateDefinedCenters
MaxFormed == 2

\* number of catalog channels the charts given to calculateComposite draw from
PoolSize == 5

---------------------------------------------------------------------------
(* Static tables *)

gateOrder ==
    <<41, 19, 13, 49, 30, 55, 37, 63, 22, 36, 25, 17, 21, 51, 42, 3,
      27, 24, 2, 23, 8, 20, 16, 35, 45, 12, 15, 52, 39, 53, 62, 56,
      31, 33, 7, 4, 29, 59, 40, 64, 47, 6, 46, 18, 48, 57, 32, 50,
      28, 44, 1, 43, 14, 34, 9, 5, 26, 11, 10, 58, 38, 54, 61, 60>>

HD_OFFSET_DEGREES == 58

hdTypes ==
    [MANIFESTOR |-> "Manifestor",
     GENERATOR |-> "Generator",
     MANIFESTING_GENERATOR |-> "Manifesting Generator",
     PROJECTOR |-> "Projector",
     REFLECTOR |-> "Reflector"]

centers ==
    [ROOT |-> "Root center",
     SACRAL |-> "Sacral center",
     SOLAR_PLEXUS |-> "Solar Plexus center",
     SPLENIC |-> "Splenic center",
     HEART |-> "Heart center",
     G |-> "G center",
     THROAT |-> "Throat center",
     AJNA |-> "Ajna center",
     HEAD |-> "Head center"]

\* the keys of channelDefinitions in insertion order; the key 'a-b' is <<a, b>>
channelDefinitions ==
    <<<<1, 8>>, <<2, 14>>, <<3, 60>>, <<4, 63>>, <<5, 15>>, <<6, 59>>,
      <<7, 31>>, <<9, 52>>, <<10, 20>>, <<10, 34>>, <<10, 57>>, <<11, 56>>,
      <<12, 22>>, <<13, 33>>, <<16, 48>>, <<17, 62>>, <<18, 58>>, <<19, 49>>,
      <<20, 34>>, <<20, 57>>, <<21, 45>>, <<23, 43>>, <<24, 61>>, <<25, 51>>,
      <<26, 44>>, <<27, 50>>, <<28, 38>>, <<29, 46>>, <<30, 41>>, <<32, 54>>,
      <<34, 57>>, <<35, 36>>, <<37, 40>>, <<39, 55>>, <<42, 53>>, <<47, 64>>>>

motorToThroatChannels ==
    <<<<12, 22>>, <<35, 36>>,
      <<21, 45>>, <<26, 44>>,
      <<20, 34>>, <<20, 57>>, <<10, 20>>, <<10, 34>>, <<10, 57>>,
      <<58, 18>>,
      <<37, 40>>>>

---------------------------------------------------------------------------
(* Numbers *)

\* grid units per degree: 69120 base cells / 360 degrees = 192 cells
UnitsPerDegree == 192 * Res

Deg(d) == d * UnitsPerDegree

\* 5.625 degrees = 45/8 degrees, the width of a gate
GateWidth == (45 * UnitsPerDegree) \div 8

\* JavaScript's % : the remainder has the sign of the dividend
JsRem(a, m) == IF a >= 0 THEN a % m ELSE -((-a) % m)

\* Math.floor(num / den), den > 0
Floor(num, den) == num \div den

---------------------------------------------------------------------------
(* Coordinate encoder *)

\* gateOrder[i] of a JavaScript array: undefined outside 0..63
ArrayGet(arr, i) == IF i >= 0 /\ i < Len(arr) THEN arr[i + 1] ELSE 0

\* variant: the 58 degree offset is not applied
eclipticToGateIndex_NoOffset(eclipticLongitude) ==
    LET normalized0 == IF eclipticLongitude < 0
                       THEN eclipticLongitude + Deg(360)
                       ELSE eclipticLongitude
        normalizedLongitude == JsRem(normalized0, Deg(360))
    IN  Floor(normalizedLongitude, GateWidth)

eclipticToGateIndex(eclipticLongitude) ==
    LET normalized0 == IF eclipticLongitude < 0
                       THEN eclipticLongitude + Deg(360)
                       ELSE eclipticLongitude
        normalizedLongitude == JsRem(normalized0, Deg(360))
        adjustedLongitude ==
            JsRem(normalizedLongitude + Deg(HD_OFFSET_DEGREES), Deg(360))
    IN  Floor(adjustedLongitude, GateWidth)

eclipticToGate(eclipticLongitude) ==
    ArrayGet(gateOrder, JsRem(eclipticToGateIndex(eclipticLongitude), 64))

\* floor(((count * adjusted/360) % width) + 1).  count * adjusted/360 is
\* adjusted / unit with unit = 360/count degrees (count divides 69120), so
\* the value is floor((JsRem(adjusted, width*unit) + unit) / unit).
Subdivision(eclipticLongitude, count, width) ==
    LET adjustedLongitude ==
            JsRem(eclipticLongitude + Deg(HD_OFFSET_DEGREES), Deg(360))
        unit == Deg(360) \div count
    IN  Floor(JsRem(adjustedLongitude, width * unit) + unit, unit)

\* variant: the subdivision is taken of the raw longitude, without the offset
calculateLine_NoOffset(eclipticLongitude) ==
    LET unit == Deg(360) \div 384
    IN  Floor(JsRem(JsRem(eclipticLongitude, Deg(360)), 6 * unit) + unit, unit)

calculateLine(eclipticLongitude) == Subdivision(eclipticLongitude, 384, 6)

calculateColor(eclipticLongitude) == Subdivision(eclipticLongitude, 2304, 6)

calculateTone(eclipticLongitude) == Subdivision(eclipticLongitude, 13824, 6)

\* variant: a base stage six wide, like the three stages before it
calculateBase_SixWide(eclipticLongitude) == Subdivision(eclipticLongitude, 69120, 6)

calculateBase(eclipticLongitude) == Subdivision(eclipticLongitude, 69120, 5)

NoActivation == [Gate |-> 0, Line |-> 0, Color |-> 0, Tone |-> 0, Base |-> 0]

createSwissEphPlanetData(lon) ==
    [Gate  |-> eclipticToGate(lon),
     Line  |-> calculateLine(lon),
     Color |-> calculateColor(lon),
     Tone  |-> calculateTone(lon),
     Base  |-> calculateBase(lon)]


InitOther(own) ==
    /\ IF "encoder" \in own THEN TRUE
       ELSE longitude = 0 /\ activation = NoActivation
    /\ IF "resolver" \in own THEN TRUE
       ELSE personalityPlanets = <<>> /\ designPlanets = <<>> /\ gates = <<>>
    /\ IF "channels" \in own THEN TRUE ELSE channels = <<>>
    /\ IF "classifier" \in own THEN TRUE
       ELSE definedCenters = {} /\ type = "" /\ typeReturn = 0 /\ authority = ""
    /\ IF "centers" \in own THEN TRUE ELSE openCenters = <<>>
    /\ IF "composite" \in own THEN TRUE
       ELSE chart1 = <<>> /\ chart2 = <<>> /\ composite = <<>>
    /\ IF "provider" \in own THEN TRUE ELSE provider = <<>>
    /\ IF "solver" \in own THEN TRUE ELSE solver = <<>>
    /\ IF "chart" \in own THEN TRUE ELSE calls = <<>>
    /\ IF "cross" \in own THEN TRUE ELSE cross = <<>>
    /\ IF "request" \in own THEN TRUE ELSE request = <<>>
    /\ IF "calculator" \in own THEN TRUE ELSE calculator = <<>>
    /\ done = {}

\* the longitudes of the encoder's domain: [-360, 360) degrees
Longitudes == Deg(-360) .. (Deg(360) - 1)

InitEncoder ==
    /\ longitude \in Longitudes
    /\ activation = NoActivation
    /\ InitOther({"encoder"})

EncodeLongitude ==
    /\ "createSwissEphPlanetData" \notin done
    /\ activation' = createSwissEphPlanetData(longitude)
    /\ done' = done \cup {"createSwissEphPlanetData"}
    /\ UNCHANGED <<longitude, resolverVars, channels, classifierVars, extVars>>

NextEncoder == EncodeLongitude

SpecEncoder == InitEncoder /\ [][NextEncoder]_vars

Encoded == "createSwissEphPlanetData" \in done

---------------------------------------------------------------------------
(* Claims about the coordinate encoder, checked under SpecEncoder *)

InCircle == longitude >= 0 /\ longitude < Deg(360)

GateNumbers == {gateOrder[i] : i \in 1..Len(gateOrder)}

InDeclaredRanges(a) ==
    /\ a.Gate \in GateNumbers
    /\ a.Line \in 1..6
    /\ a.Color \in 1..6
    /\ a.Tone \in 1..6
    /\ a.Base \in 1..5

\* C1: for every longitude in [0,360) the encoder returns a Gate of the
\* gate-order table, Line, Color and Tone in 1..6 and Base in 1..5.
C1_EncoderRanges ==
    (Encoded /\ InCircle) => InDeclaredRanges(activation)

\* C1 witness: a longitude of the circle encoded to the top of the ranges
C1_Witness ==
    /\ Encoded /\ InCircle
    /\ activation.Line = 6 /\ activation.Color = 6
    /\ activation.Tone = 6 /\ activation.Base = 5

\* the base cell (0..69119) that holds a longitude of [0,360), counted from
\* the start of gate 41 at 302 degrees
CellOf(lon) == ((lon + Deg(360 - 302)) % Deg(360)) \div Res

\* the segment (0..63) whose entry in the gate table is g
SegmentOf(g) == CHOOSE i \in 0..63 : gateOrder[i + 1] = g

\* the cell named by a (segment, Line, Color, Tone, Base) tuple in the
\* nested order 64 x 6 x 6 x 6 x 5
CellOfTuple(seg, a) ==
    (((seg * 6 + (a.Line - 1)) * 6 + (a.Color - 1)) * 6 + (a.Tone - 1)) * 5
        + (a.Base - 1)

C3_KnownPoints ==
    Encoded =>
        /\ longitude = 0 =>
              (activation.Gate = 25 /\ eclipticToGateIndex(longitude) = 10)
        /\ longitude = Deg(302) =>
              (activation.Gate = 41 /\ activation.Line = 1
                 /\ eclipticToGateIndex(longitude) = 0)

\* C3 witness: 302 degrees has been encoded
C3_Witness == Encoded /\ longitude = Deg(302) /\ activation.Gate = 41

\* C4: for every longitude x in [-360,0) the five encoder outputs equal
\* those of x+360 and stay inside their declared ranges.
C4_NegativeNormalized ==
    (Encoded /\ longitude < 0) =>
        /\ activation = createSwissEphPlanetData(longitude + Deg(360))
        /\ InDeclaredRanges(activation)

---------------------------------------------------------------------------
(* Channel resolver: extractGates and calculateChannels *)

Range(f) == {f[x] : x \in DOMAIN f}

RECURSIVE SortAscending(_)
\* Array.from(set).sort((a, b) => a - b)
SortAscending(S) ==
    IF S = {} THEN <<>>
    ELSE LET m == CHOOSE x \in S : \A y \in S : x <= y
         IN  <<m>> \o SortAscending(S \ {m})

extractGates(pPlanets, dPlanets) ==
    SortAscending(Range(pPlanets) \cup Range(dPlanets))

\* variant: the key pushed is built from the gates in the other order
calculateChannels_ReversedKey(gateArray) ==
    LET gateSet == Range(gateArray)
        formed(channelKey) == channelKey[1] \in gateSet /\ channelKey[2] \in gateSet
        found == SelectSeq(channelDefinitions, formed)
    IN  [i \in 1..Len(found) |-> <<found[i][2], found[i][1]>>]

\* variant: one gate of the pair is enough
calculateChannels_EitherGate(gateArray) ==
    LET gateSet == Range(gateArray)
        formed(channelKey) == channelKey[1] \in gateSet \/ channelKey[2] \in gateSet
    IN  SelectSeq(channelDefinitions, formed)

calculateChannels(gateArray) ==
    LET gateSet == Range(gateArray)
        formed(channelKey) == channelKey[1] \in gateSet /\ channelKey[2] \in gateSet
    IN  SelectSeq(channelDefinitions, formed)

\* the bodies queried from the ephemeris, in the order of the planets table
QueriedBodies ==
    <<"Sun", "Moon", "Mercury", "Venus", "Mars", "Jupiter", "Saturn",
      "Uranus", "Neptune", "Pluto", "North Node">>

\* gates of the channels 1-8, 10-20, 10-34, 10-57, 20-34, 20-57, 34-57
ClusterGates == {1, 8, 10, 20, 34, 57}

\* planet maps reduced to their Gate: one body on any gate, or NBodies
\* bodies on the gates of the cluster
PlanetMaps ==
    [{QueriedBodies[1]} -> 1..64]
        \cup [{QueriedBodies[i] : i \in 1..NBodies} -> ClusterGates]

InitResolver ==
    /\ personalityPlanets \in PlanetMaps
    /\ designPlanets \in PlanetMaps
    /\ gates = <<>>
    /\ channels = <<>>
    /\ InitOther({"resolver", "channels"})

ExtractGates ==
    /\ "extractGates" \notin done
    /\ gates' = extractGates(personalityPlanets, designPlanets)
    /\ done' = done \cup {"extractGates"}
    /\ UNCHANGED <<personalityPlanets, designPlanets, channels,
                   encoderVars, classifierVars, extVars>>

CalculateChannels ==
    /\ "extractGates" \in done
    /\ "calculateChannels" \notin done
    /\ channels' = calculateChannels(gates)
    /\ done' = done \cup {"calculateChannels"}
    /\ UNCHANGED <<resolverVars, encoderVars, classifierVars, extVars>>

NextResolver == ExtractGates \/ CalculateChannels

SpecResolver == InitResolver /\ [][NextResolver]_vars

Resolved == "calculateChannels" \in done

---------------------------------------------------------------------------
(* Type and authority classifier *)

Includes(array, x) == \E i \in 1..Len(array) : array[i] = x

\* variant: '26-44' (Heart - Splenic) is not taken for a motor-to-throat channel
hasMotorToThroat_Without2644(chs) ==
    \E i \in 1..Len(chs) :
        chs[i] # <<26, 44>> /\ Includes(motorToThroatChannels, chs[i])

hasMotorToThroat(chs) ==
    \E i \in 1..Len(chs) : Includes(motorToThroatChannels, chs[i])

\* variant: the Reflector test comes after the Sacral / motor tests
determineTypeReturn_ReflectorLast(dCenters, chs) ==
    LET hasSacral == centers.SACRAL \in dCenters
        motor == hasMotorToThroat(chs)
    IN  IF hasSacral /\ ~motor THEN 2
        ELSE IF hasSacral /\ motor THEN 3
        ELSE IF ~hasSacral /\ motor THEN 4
        ELSE IF Cardinality(dCenters) = 0 THEN 1
        ELSE IF ~hasSacral /\ ~motor THEN 5
        ELSE 6

\* the return statement determineType leaves by, 1..6 in source order;
\* definedCenters is an array used only through length and includes
determineTypeReturn(dCenters, chs) ==
    LET hasSacral == centers.SACRAL \in dCenters
        motor == hasMotorToThroat(chs)
    IN  IF Cardinality(dCenters) = 0 THEN 1
        ELSE IF hasSacral /\ ~motor THEN 2
        ELSE IF hasSacral /\ motor THEN 3
        ELSE IF ~hasSacral /\ motor THEN 4
        ELSE IF ~hasSacral /\ ~motor THEN 5
        ELSE 6

\* the value of each return statement of determineType
TypeReturned ==
    <<hdTypes.REFLECTOR, hdTypes.GENERATOR, hdTypes.MANIFESTING_GENERATOR,
      hdTypes.MANIFESTOR, hdTypes.PROJECTOR, hdTypes.PROJECTOR>>

\* variant: a chart without a defined motor center is a Reflector
determineType_NoMotorReflector(dCenters, chs) ==
    IF dCenters \cap {centers.SACRAL, centers.SOLAR_PLEXUS, centers.HEART,
                      centers.ROOT} = {}
    THEN hdTypes.REFLECTOR
    ELSE TypeReturned[determineTypeReturn(dCenters, chs)]

determineType(dCenters, chs) == TypeReturned[determineTypeReturn(dCenters, chs)]

\* variant: the Sacral is tested before the Solar Plexus
determineAuthority_SacralFirst(dCenters) ==
    IF centers.SACRAL \in dCenters THEN "Sacral"
    ELSE IF centers.SOLAR_PLEXUS \in dCenters THEN "Emotional - Solar Plexus"
    ELSE IF centers.SPLENIC \in dCenters THEN "Splenic"
    ELSE IF centers.HEART \in dCenters THEN "Heart"
    ELSE IF centers.G \in dCenters THEN "Self-Projected"
    ELSE "Outer"

determineAuthority(dCenters) ==
    IF centers.SOLAR_PLEXUS \in dCenters THEN "Emotional - Solar Plexus"
    ELSE IF centers.SACRAL \in dCenters THEN "Sacral"
    ELSE IF centers.SPLENIC \in dCenters THEN "Splenic"
    ELSE IF centers.HEART \in dCenters THEN "Heart"
    ELSE IF centers.G \in dCenters THEN "Self-Projected"
    ELSE
        LET innerAuthorityCenters ==
                <<centers.SOLAR_PLEXUS, centers.SACRAL, centers.SPLENIC,
                  centers.HEART, centers.G>>
            hasInnerAuthority ==
                \E i \in 1..Len(innerAuthorityCenters) :
                    innerAuthorityCenters[i] \in dCenters
        IN  IF ~hasInnerAuthority THEN "Outer"
            ELSE IF centers.THROAT \in dCenters THEN "Throat"
            ELSE IF centers.AJNA \in dCenters THEN "Mental"
            ELSE "Lunar"

AllCenters == Range(centers)

\* channel keys a caller can pass: the catalog and the motor-to-throat list
ChannelKeys == Range(channelDefinitions) \cup Range(motorToThroatChannels)

RECURSIVE ListsUpTo(_, _)
\* the lists of at most n keys of K
ListsUpTo(K, n) ==
    IF n = 0 THEN {<<>>}
    ELSE LET shorter == ListsUpTo(K, n - 1)
         IN  shorter \cup
             {Append(l, k) : l \in {s \in shorter : Len(s) = n - 1}, k \in K}

InitClassifier ==
    /\ definedCenters \in SUBSET AllCenters
    /\ channels \in ListsUpTo(ChannelKeys, MaxChannels)
    /\ type = "" /\ typeReturn = 0 /\ authority = ""
    /\ InitOther({"classifier", "channels"})

DetermineType ==
    /\ "determineType" \notin done
    /\ typeReturn' = determineTypeReturn(definedCenters, channels)
    /\ type' = determineType(definedCenters, channels)
    /\ done' = done \cup {"determineType"}
    /\ UNCHANGED <<definedCenters, channels, authority, encoderVars, resolverVars,
                   extVars>>

DetermineAuthority ==
    /\ "determineType" \in done
    /\ "determineAuthority" \notin done
    /\ authority' = determineAuthority(definedCenters)
    /\ done' = done \cup {"determineAuthority"}
    /\ UNCHANGED <<definedCenters, channels, type, typeReturn,
                   encoderVars, resolverVars, extVars>>

NextClassifier == DetermineType \/ DetermineAuthority

SpecClassifier == InitClassifier /\ [][NextClassifier]_vars

Typed == "determineType" \in done

Authorized == "determineAuthority" \in done

---------------------------------------------------------------------------
(* Center resolver: calculateDefinedCenters and calculateOpenCenters *)

channelToCenters ==
    <<1, 8>> :> <<"G", "Throat">> @@
    <<2, 14>> :> <<"G", "Sacral">> @@
    <<3, 60>> :> <<"Root", "Sacral">> @@
    <<4, 63>> :> <<"Ajna", "Head">> @@
    <<5, 15>> :> <<"G", "Sacral">> @@
    <<6, 59>> :> <<"Solar Plexus", "Sacral">> @@
    <<7, 31>> :> <<"G", "Throat">> @@
    <<9, 52>> :> <<"Root", "Sacral">> @@
    <<10, 20>> :> <<"G", "Throat">> @@
    <<10, 34>> :> <<"G", "Sacral">> @@
    <<10, 57>> :> <<"G", "Splenic">> @@
    <<11, 56>> :> <<"Ajna", "Throat">> @@
    <<12, 22>> :> <<"Throat", "Solar Plexus">> @@
    <<13, 33>> :> <<"G", "Throat">> @@
    <<16, 48>> :> <<"Throat", "Splenic">> @@
    <<17, 62>> :> <<"Ajna", "Throat">> @@
    <<18, 58>> :> <<"Root", "Splenic">> @@
    <<19, 49>> :> <<"Root", "Solar Plexus">> @@
    <<20, 34>> :> <<"Throat", "Sacral">> @@
    <<20, 57>> :> <<"Throat", "Splenic">> @@
    <<21, 45>> :> <<"Heart", "Throat">> @@
    <<23, 43>> :> <<"Ajna", "Throat">> @@
    <<24, 61>> :> <<"Ajna", "Head">> @@
    <<25, 51>> :> <<"G", "Heart">> @@
    <<26, 44>> :> <<"Heart", "Splenic">> @@
    <<27, 50>> :> <<"Sacral", "Splenic">> @@
    <<28, 38>> :> <<"Root", "Splenic">> @@
    <<29, 46>> :> <<"Sacral", "G">> @@
    <<30, 41>> :> <<"Solar Plexus", "Heart">> @@
    <<32, 54>> :> <<"Root", "Splenic">> @@
    <<34, 57>> :> <<"Sacral", "Splenic">> @@
    <<35, 36>> :> <<"Throat", "Solar Plexus">> @@
    <<37, 40>> :> <<"Solar Plexus", "Heart">> @@
    <<39, 55>> :> <<"Root", "Solar Plexus">> @@
    <<42, 53>> :> <<"Root", "Sacral">> @@
    <<47, 64>> :> <<"Ajna", "Head">>

\* center.toUpperCase().replace(' ', '_') on the names used in channelToCenters
UpperSnake ==
    [x \in {"G", "Throat", "Sacral", "Root", "Ajna", "Head", "Solar Plexus",
            "Splenic", "Heart"} |->
        CASE x = "G" -> "G"
          [] x = "Throat" -> "THROAT"
          [] x = "Sacral" -> "SACRAL"
          [] x = "Root" -> "ROOT"
          [] x = "Ajna" -> "AJNA"
          [] x = "Head" -> "HEAD"
          [] x = "Solar Plexus" -> "SOLAR_PLEXUS"
          [] x = "Splenic" -> "SPLENIC"
          [] x = "Heart" -> "HEART"]

\* center + ' center'
WithCenterSuffix ==
    [x \in DOMAIN UpperSnake |->
        CASE x = "G" -> "G center"
          [] x = "Throat" -> "Throat center"
          [] x = "Sacral" -> "Sacral center"
          [] x = "Root" -> "Root center"
          [] x = "Ajna" -> "Ajna center"
          [] x = "Head" -> "Head center"
          [] x = "Solar Plexus" -> "Solar Plexus center"
          [] x = "Splenic" -> "Splenic center"
          [] x = "Heart" -> "Heart center"]

\* centers[center.toUpperCase().replace(' ', '_')] || center + ' center'
CenterName(center) ==
    IF UpperSnake[center] \in DOMAIN centers
    THEN centers[UpperSnake[center]]
    ELSE WithCenterSuffix[center]

\* Set.prototype.add on a set kept in insertion order
SetAdd(array, x) == IF Includes(array, x) THEN array ELSE Append(array, x)

RECURSIVE AddCenters(_, _, _)
\* channels.forEach from index i on, accumulating into the set defined
AddCenters(chs, i, defined) ==
    IF i > Len(chs) THEN defined
    ELSE IF chs[i] \in DOMAIN channelToCenters
         THEN LET centerPair == channelToCenters[chs[i]]
              IN  AddCenters(chs, i + 1,
                      SetAdd(SetAdd(defined, CenterName(centerPair[1])),
                             CenterName(centerPair[2])))
         ELSE AddCenters(chs, i + 1, defined)

RECURSIVE AddCenters_FirstOnly(_, _, _)
\* variant: only the first center of each pair is added
AddCenters_FirstOnly(chs, i, defined) ==
    IF i > Len(chs) THEN defined
    ELSE IF chs[i] \in DOMAIN channelToCenters
         THEN AddCenters_FirstOnly(chs, i + 1,
                  SetAdd(defined, CenterName(channelToCenters[chs[i]][1])))
         ELSE AddCenters_FirstOnly(chs, i + 1, defined)

\* variant of calculateDefinedCenters built on AddCenters_FirstOnly
calculateDefinedCenters_FirstOnly(chs) == AddCenters_FirstOnly(chs, 1, <<>>)

calculateDefinedCenters(chs) == AddCenters(chs, 1, <<>>)

\* Object.values(centers), in the order the object literal lists them
allCenters ==
    <<centers.ROOT, centers.SACRAL, centers.SOLAR_PLEXUS, centers.SPLENIC,
      centers.HEART, centers.G, centers.THROAT, centers.AJNA, centers.HEAD>>

calculateOpenCenters(dCenters) ==
    LET isOpen(center) == ~Includes(dCenters, center)
    IN  SelectSeq(allCenters, isOpen)

InitCenters ==
    /\ channels \in ListsUpTo(Range(channelDefinitions), MaxFormed)
    /\ definedCenters = <<>>
    /\ openCenters = <<>>
    /\ type = "" /\ typeReturn = 0 /\ authority = ""
    /\ InitOther({"channels", "classifier", "centers"})

CalculateDefinedCenters ==
    /\ "calculateDefinedCenters" \notin done
    /\ definedCenters' = calculateDefinedCenters(channels)
    /\ done' = done \cup {"calculateDefinedCenters"}
    /\ UNCHANGED <<channels, type, typeReturn, authority, openCenters,
                   encoderVars, resolverVars, compositeVars, solverVars, chartVars,
                   lateVars>>

CalculateOpenCenters ==
    /\ "calculateDefinedCenters" \in done
    /\ "calculateOpenCenters" \notin done
    /\ openCenters' = calculateOpenCenters(definedCenters)
    /\ done' = done \cup {"calculateOpenCenters"}
    /\ UNCHANGED <<channels, classifierVars, encoderVars, resolverVars,
                   compositeVars, solverVars, chartVars,
                   lateVars>>

NextCenters == CalculateDefinedCenters \/ CalculateOpenCenters

SpecCenters == InitCenters /\ [][NextCenters]_vars

CentersDone == "calculateOpenCenters" \in done

---------------------------------------------------------------------------
(* Composite merger: calculateComposite *)

RECURSIVE AddAll(_, _, _)
\* new Set(array): the elements from index i on, added in order
AddAll(array, i, acc) ==
    IF i > Len(array) THEN acc
    ELSE AddAll(array, i + 1, SetAdd(acc, array[i]))

\* variant: the two arrays are concatenated without passing through a Set
UniqueConcat_NoSet(a, b) == a \o b

\* [...new Set([...a, ...b])]
UniqueConcat(a, b) == AddAll(a \o b, 1, <<>>)

\* array.slice(0, n)
SliceFirst(array, n) ==
    SubSeq(array, 1, IF Len(array) < n THEN Len(array) ELSE n)

calculateCompositeDefinition(dCenters) ==
    LET definedCount == Len(dCenters)
    IN  IF definedCount >= 7 THEN "Single Definition"
        ELSE IF definedCount >= 4 THEN "Split Definition"
        ELSE IF definedCount >= 2 THEN "Triple Split Definition"
        ELSE "No Definition"

getConnectionType(definedCount) ==
    IF definedCount >= 8 THEN "Almost Complete"
    ELSE IF definedCount >= 6 THEN "Highly Defined"
    ELSE IF definedCount >= 4 THEN "Balanced"
    ELSE "Open and Flowing"

\* the three parts of the template `${defined} - ${open}, ${type}`
calculateConnectionTheme(dCenters) ==
    <<Len(dCenters), 9 - Len(dCenters), getConnectionType(Len(dCenters))>>

\* variant: Dominance and Compromise are not sliced
categorizeRelationshipChannels_NoCap(channels1, channels2) ==
    LET in1(c) == Includes(channels1, c)
        in2(c) == Includes(channels2, c)
        notIn1(c) == ~Includes(channels1, c)
        notIn2(c) == ~Includes(channels2, c)
    IN  [Companionship |-> SelectSeq(channels1, in2),
         Dominance |-> SelectSeq(channels1, notIn2),
         Compromise |-> SelectSeq(channels2, notIn1),
         Electromagnetic |-> <<>>]

\* each List entry is reduced to the channel key it is built from
categorizeRelationshipChannels(channels1, channels2) ==
    LET in2(c) == Includes(channels2, c)
        notIn1(c) == ~Includes(channels1, c)
        notIn2(c) == ~Includes(channels2, c)
        shared == SelectSeq(channels1, in2)
        unique1 == SelectSeq(channels1, notIn2)
        unique2 == SelectSeq(channels2, notIn1)
    IN  [Companionship |-> shared,
         Dominance |-> SliceFirst(unique1, 3),
         Compromise |-> SliceFirst(unique2, 3),
         Electromagnetic |-> <<>>]

\* allChannels is computed by the source but not part of the result
calculateComposite(c1, c2) ==
    LET allDefinedCenters == UniqueConcat(c1.definedCenters, c2.definedCenters)
    IN  [UnconsciousCenters |-> <<>>,
         ConsciousCenters |-> <<>>,
         DefinedCenters |-> allDefinedCenters,
         OpenCenters |-> calculateOpenCenters(allDefinedCenters),
         Definition |-> calculateCompositeDefinition(allDefinedCenters),
         ConnectionTheme |-> calculateConnectionTheme(allDefinedCenters),
         RelationshipChannels |->
             categorizeRelationshipChannels(c1.channels, c2.channels)]

\* catalog channels that between them touch all nine centers
CompositePool ==
    <<<<1, 8>>, <<3, 60>>, <<4, 63>>, <<6, 59>>, <<18, 58>>, <<21, 45>>,
      <<10, 57>>, <<37, 40>>>>

\* the channel lists calculateChannels can return over the first PoolSize
\* channels of the pool: their sub-lists in catalog order
PoolLists ==
    LET pool == SubSeq(CompositePool, 1, PoolSize)
        keep(S) == LET in(c) == c \in S IN SelectSeq(channelDefinitions, in)
    IN  {keep(S) : S \in SUBSET Range(pool)}

\* the part of a chart calculateComposite reads
ChartOfChannels(chs) ==
    [channels |-> chs, definedCenters |-> calculateDefinedCenters(chs)]

InitComposite ==
    /\ chart1 \in {ChartOfChannels(chs) : chs \in PoolLists}
    /\ chart2 \in {ChartOfChannels(chs) : chs \in PoolLists}
    /\ composite = <<>>
    /\ InitOther({"composite"})

CalculateComposite ==
    /\ "calculateComposite" \notin done
    /\ composite' = calculateComposite(chart1, chart2)
    /\ done' = done \cup {"calculateComposite"}
    /\ UNCHANGED <<chart1, chart2, openCenters, channels, classifierVars,
                   encoderVars, resolverVars, solverVars, chartVars,
                   lateVars>>

NextComposite == CalculateComposite

SpecComposite == InitComposite /\ [][NextComposite]_vars

Merged == "calculateComposite" \in done

---------------------------------------------------------------------------
(* Design-moment solver: findDesignDate *)

(* Julian days are counted in ticks of 0.05 day, the step of the scan, so   *)
(* that every sample instant and the fallback instant are whole ticks.      *)
(* Longitudes are on the grid of the encoder.                               *)

\* ticks per day: the scan steps by 0.05 day
TicksPerDay == 20

\* the loop bound of the scan
MaxIterations == 400

\* 95 days, the start of the scan before birth
SearchBackTicks == 95 * TicksPerDay

\* 88.5 days, the fallback offset
FallbackBackTicks == 88 * TicksPerDay + TicksPerDay \div 2

\* difference < 0.05 degrees, i.e. 20 * difference < 1 degree
BelowThreshold(difference) == 20 * difference < UnitsPerDegree

\* swe_calc: the provider is a function of the body and the instant.  The
\* Sun is at lonAtEpoch at tick epoch and advances speed units per tick; the
\* other bodies follow it, spread apart in the order of the planets table.
\* Calls for a body of failBodies at the ticks epoch + failFrom ..
\* epoch + failTo - 1 report an error.
SunLongitudeAt(P, tick) ==
    (P.lonAtEpoch + P.speed * (tick - P.epoch)) % Deg(360)

BodyIndex(planetName) ==
    CHOOSE j \in 1..Len(QueriedBodies) : QueriedBodies[j] = planetName

BodyLongitudeAt(P, planetName, tick) ==
    (SunLongitudeAt(P, tick) + (BodyIndex(planetName) - 1) * P.spread)
        % Deg(360)

BodyFails(P, planetName, tick) ==
    /\ planetName \in P.failBodies
    /\ P.failFrom <= tick - P.epoch
    /\ tick - P.epoch < P.failTo

SunFails(P, tick) == BodyFails(P, "Sun", tick)

\* the locals of findDesignDate after lines 303-315; bestMatch = 0 is null
findDesignDateEntry(personalityJulianDay, sunLongitude) ==
    [pc |-> "loop",
     personalityJulianDay |-> personalityJulianDay,
     sunLongitude |-> sunLongitude,
     targetLongitude |-> IF sunLongitude - Deg(88) < 0
                         THEN sunLongitude - Deg(88) + Deg(360)
                         ELSE sunLongitude - Deg(88),
     searchJulianDay |-> personalityJulianDay - SearchBackTicks,
     bestMatch |-> 0,
     bestDifference |-> Deg(999),
     i |-> 0,
     calls |-> 0,
     result |-> 0]

\* variant: the scan steps by whole days
currentJulianDay_WholeDays(s) == s.searchJulianDay + s.i * TicksPerDay

\* searchJulianDay + (i * 0.05)
currentJulianDay(s) == s.searchJulianDay + s.i

Abs(x) == IF x < 0 THEN -x ELSE x

\* lines 324-325: the circular difference from the target
differenceFrom(targetLongitude, lon) ==
    LET difference == Abs(targetLongitude - lon)
    IN  IF difference > Deg(180) THEN Deg(360) - difference ELSE difference

\* variant: a later sample replaces an equally close earlier one
sampleResolved_LastOnTies(s, lon) ==
    LET difference == differenceFrom(s.targetLongitude, lon)
        tracked == IF difference <= s.bestDifference
                   THEN [s EXCEPT !.bestDifference = difference,
                                  !.bestMatch = currentJulianDay(s)]
                   ELSE s
    IN  IF BelowThreshold(difference)
        THEN [tracked EXCEPT !.pc = "returned", !.result = currentJulianDay(s)]
        ELSE [tracked EXCEPT !.pc = "loop", !.i = s.i + 1]

\* lines 323-337: the body of the try block once getPlanetPosition resolved
sampleResolved(s, lon) ==
    LET difference == differenceFrom(s.targetLongitude, lon)
        tracked == IF difference < s.bestDifference
                   THEN [s EXCEPT !.bestDifference = difference,
                                  !.bestMatch = currentJulianDay(s)]
                   ELSE s
    IN  IF BelowThreshold(difference)
        THEN [tracked EXCEPT !.pc = "returned", !.result = currentJulianDay(s)]
        ELSE [tracked EXCEPT !.pc = "loop", !.i = s.i + 1]

\* variant: a failed sample ends the scan with the fallback instant
sampleRejected_Abort(s) ==
    [s EXCEPT !.pc = "returned",
              !.result = s.personalityJulianDay - FallbackBackTicks]

\* lines 339-342: the catch block, continue
sampleRejected(s) == [s EXCEPT !.pc = "loop", !.i = s.i + 1]

\* variant: the fallback is 88 days before birth
scanExhausted_Fallback88(s) ==
    [s EXCEPT !.pc = "returned",
              !.result = IF s.bestMatch # 0 THEN s.bestMatch
                         ELSE s.personalityJulianDay - 88 * TicksPerDay]

\* lines 345-351: after the loop
scanExhausted(s) ==
    [s EXCEPT !.pc = "returned",
              !.result = IF s.bestMatch # 0 THEN s.bestMatch
                         ELSE s.personalityJulianDay - FallbackBackTicks]

\* a birth instant: J2000.0, Julian day 2451545
BirthTick == 2451545 * TicksPerDay

SolverSunLongitudes == {Deg(10), Deg(88), Deg(200)}

\* units the Sun advances per tick: about 0.047 and 0.104 degrees
SolverSpeeds == {9 * Res, 20 * Res}

\* where the Sun is at sample 0, relative to the target
SolverStartOffsets == {-(1150 * Res), -Deg(1), Deg(2), -Deg(60)}

\* the samples whose provider call reports an error: from .. to - 1
SolverFailures ==
    {<<0, 0>>, <<0, MaxIterations>>, <<1, MaxIterations>>, <<0, 128>>,
     <<127, 128>>, <<57, 58>>}

InitSolver ==
    /\ \E L \in SolverSunLongitudes, v \in SolverSpeeds,
          d0 \in SolverStartOffsets, f \in SolverFailures :
          /\ provider =
                [epoch |-> BirthTick - SearchBackTicks,
                 lonAtEpoch |-> (L - Deg(88) + d0 + Deg(720)) % Deg(360),
                 speed |-> v,
                 spread |-> 0,
                 failBodies |-> {"Sun"},
                 failFrom |-> f[1],
                 failTo |-> f[2]]
          /\ solver = [pc |-> "idle", personalityJulianDay |-> BirthTick,
                       sunLongitude |-> L, calls |-> 0, result |-> 0]
    /\ InitOther({"provider", "solver"})

\* what findDesignDate leaves alone
solverOthers ==
    <<encoderVars, resolverVars, channels, classifierVars, openCenters,
      compositeVars, chartVars, lateVars, done>>

\* findDesignDate is called
SolverEnter ==
    /\ solver.pc = "idle"
    /\ solver' = findDesignDateEntry(solver.personalityJulianDay,
                                     solver.sunLongitude)
    /\ UNCHANGED <<provider, solverOthers>>

\* line 321: getPlanetPosition is called for the current sample
SolverCall ==
    /\ solver.pc = "loop"
    /\ solver.i < MaxIterations
    /\ solver' = [solver EXCEPT !.pc = "await", !.calls = solver.calls + 1]
    /\ UNCHANGED <<provider, solverOthers>>

\* the promise of getPlanetPosition resolves
SolverResolve ==
    /\ solver.pc = "await"
    /\ ~SunFails(provider, currentJulianDay(solver))
    /\ solver' = sampleResolved(solver,
                     SunLongitudeAt(provider, currentJulianDay(solver)))
    /\ UNCHANGED <<provider, solverOthers>>

\* the promise of getPlanetPosition rejects
SolverReject ==
    /\ solver.pc = "await"
    /\ SunFails(provider, currentJulianDay(solver))
    /\ solver' = sampleRejected(solver)
    /\ UNCHANGED <<provider, solverOthers>>

\* the loop ends without a return
SolverExhaust ==
    /\ solver.pc = "loop"
    /\ solver.i >= MaxIterations
    /\ solver' = scanExhausted(solver)
    /\ UNCHANGED <<provider, solverOthers>>

NextSolver ==
    SolverEnter \/ SolverCall \/ SolverResolve \/ SolverReject \/ SolverExhaust

SpecSolver == InitSolver /\ [][NextSolver]_vars

\* the event loop runs every continuation that is ready, and the provider
\* answers every call
SpecSolverFair == SpecSolver /\ WF_vars(NextSolver)

SolverReturned == solver.pc = "returned"

---------------------------------------------------------------------------
(* Chart computation: calculateChart and calculateSwissEphemerisPositions *)

\* the most invocations of calculateChart in one behaviour
MaxCalls == 2

\* createSwissEphPlanetData and createPlanetData: the activation together
\* with the longitude it was computed from
PlanetData(lon) ==
    [Gate  |-> eclipticToGate(lon),
     Line  |-> calculateLine(lon),
     Color |-> calculateColor(lon),
     Tone  |-> calculateTone(lon),
     Base  |-> calculateBase(lon),
     eclipticLongitude |-> lon]

\* a year that starts a group of four years whose first year is a leap year:
\* the year within the group and the day within that year, from 0
LeapGroup(dg) ==
    IF dg < 366 THEN [y |-> 0, d |-> dg]
    ELSE [y |-> 1 + (dg - 366) \div 365, d |-> (dg - 366) % 365]

\* moment.unix(julianDay * 86400): the Julian day number is read as days
\* since 1970-01-01; year() and dayOfYear() of the Gregorian calendar (UTC)
momentUnix(julianDay) ==
    LET n == julianDay \div TicksPerDay - 10957      \* days since 2000-01-01
        era == n \div 146097
        doe == n % 146097
        c == IF doe < 36525 THEN 0 ELSE 1 + (doe - 36525) \div 36524
        dc == IF doe < 36525 THEN doe ELSE (doe - 36525) % 36524
        inCentury ==
            IF c = 0
            THEN LET lg == LeapGroup(dc % 1461)
                 IN  [y |-> 4 * (dc \div 1461) + lg.y, d |-> lg.d]
            ELSE IF dc < 1460
            THEN [y |-> dc \div 365, d |-> dc % 365]
            ELSE LET lg == LeapGroup((dc - 1460) % 1461)
                 IN  [y |-> 4 * (1 + (dc - 1460) \div 1461) + lg.y, d |-> lg.d]
    IN  [year |-> 2000 + 400 * era + 100 * c + inCentury.y,
         dayOfYear |-> inCentury.d + 1]

\* orbital periods in hundredths of a year
orbitalPeriods ==
    [Mercury |-> 24, Venus |-> 62, Mars |-> 188, Jupiter |-> 1186,
     Saturn |-> 2946, Uranus |-> 8401, Neptune |-> 16480, Pluto |-> 24810]

RECURSIVE MulFrac(_, _, _, _, _)
\* floor(q + f1 * f2 * ... * r / den) for the factors from the i-th on
MulFrac(q, r, den, factors, i) ==
    IF i > Len(factors) THEN q
    ELSE MulFrac(q * factors[i] + (factors[i] * r) \div den,
                 (factors[i] * r) % den, den, factors, i + 1)

\* (totalDays * 360 / (period * 365.25)) % 360 with
\* totalDays = (year - 2000) * 365.25 + dayOfYear, rounded down to the grid:
\* the turns are 100 * (4 * totalDays) / (period100 * 1461)
fallbackLongitude(planetName, m) ==
    LET period100 == IF planetName \in DOMAIN orbitalPeriods
                     THEN orbitalPeriods[planetName] ELSE 100
        fourTotalDays == (m.year - 2000) * 1461 + 4 * m.dayOfYear
        den == period100 * 1461
    IN  MulFrac(0, (100 * fourTotalDays) % den, den, <<32, 16, 27, 5, Res>>, 1)

calculateFallbackPlanet(planetName, m) ==
    PlanetData(fallbackLongitude(planetName, m))

\* variant: the South Node is stored at the North Node's own longitude
positionResolved_NodeInPlace(results, planetName, lon) ==
    LET own == (planetName :> PlanetData(lon)) @@ results
    IN  IF planetName = "Sun"
        THEN ("Earth" :> PlanetData((lon + Deg(180)) % Deg(360))) @@ own
        ELSE IF planetName = "North Node"
        THEN ("South Node" :> PlanetData(lon)) @@ own
        ELSE own

\* lines 252-265: getPlanetPosition resolved for planetName
positionResolved(results, planetName, lon) ==
    LET own == (planetName :> PlanetData(lon)) @@ results
    IN  IF planetName = "Sun"
        THEN ("Earth" :> PlanetData((lon + Deg(180)) % Deg(360))) @@ own
        ELSE IF planetName = "North Node"
        THEN ("South Node" :> PlanetData((lon + Deg(180)) % Deg(360))) @@ own
        ELSE own

\* lines 267-271: getPlanetPosition rejected for planetName
positionRejected(results, planetName, julianDay) ==
    (planetName :> calculateFallbackPlanet(planetName, momentUnix(julianDay)))
        @@ results

\* hours east of Greenwich of the zones used, in ticks (6 hours are 5 ticks)
utcOffset == [UTC |-> 0, Asia_Dhaka |-> 5]

\* variant: the instant is corrected to local mean time by the longitude
\* (15 degrees an hour, longitude in 1/10000 degree)
utcInstant_LocalMeanTime(params) ==
    IF params.birthTime = 0 THEN 0
    ELSE params.birthTime - utcOffset[params.timezone]
            - (IF "longitude" \in DOMAIN params
               THEN (params.longitude * 5) \div 900000 ELSE 0)

\* moment.tz(birthTime, timezone).utc(); an unparsable birthTime (0) gives an
\* invalid date (0); a birthTime that is a Date keeps its instant, one that
\* is a string is read as wall-clock time of the zone
utcInstant(params) ==
    IF params.birthTime = 0 THEN 0
    ELSE IF "isDate" \in DOMAIN params THEN params.birthTime
    ELSE params.birthTime - utcOffset[params.timezone]

\* line 87: latitude and longitude with their defaults, in 1/10000 degree
coordinatesOf(params) ==
    [latitude |-> IF "latitude" \in DOMAIN params
                  THEN params.latitude ELSE 515074,
     longitude |-> IF "longitude" \in DOMAIN params
                   THEN params.longitude ELSE -1278]

getStrategy(t) ==
    IF t = hdTypes.MANIFESTOR THEN "To Inform"
    ELSE IF t = hdTypes.GENERATOR THEN "To Respond"
    ELSE IF t = hdTypes.MANIFESTING_GENERATOR THEN "To Respond & Inform"
    ELSE IF t = hdTypes.PROJECTOR THEN "To Wait for Invitation"
    ELSE IF t = hdTypes.REFLECTOR THEN "To Wait a Lunar Cycle"
    ELSE "To Respond"

getSignature(t) ==
    IF t = hdTypes.MANIFESTOR THEN "Peace"
    ELSE IF t = hdTypes.GENERATOR THEN "Satisfaction"
    ELSE IF t = hdTypes.MANIFESTING_GENERATOR THEN "Satisfaction"
    ELSE IF t = hdTypes.PROJECTOR THEN "Success"
    ELSE IF t = hdTypes.REFLECTOR THEN "Surprise"
    ELSE "Satisfaction"

getNotSelfTheme(t) ==
    IF t = hdTypes.MANIFESTOR THEN "Anger"
    ELSE IF t = hdTypes.GENERATOR THEN "Frustration"
    ELSE IF t = hdTypes.MANIFESTING_GENERATOR THEN "Frustration & Anger"
    ELSE IF t = hdTypes.PROJECTOR THEN "Bitterness"
    ELSE IF t = hdTypes.REFLECTOR THEN "Disappointment"
    ELSE "Frustration"

calculateProfile(personalitySun, designSun) ==
    <<personalitySun.Line, designSun.Line>>

crossNames ==
    <<"Self-Expression", "Direction", "Ordering", "Formulas",
      "Habits", "Conflict", "Interaction", "Contribution",
      "Focus", "Behavior", "Ideas", "Caution",
      "Listener", "Power Skills", "Extremes", "Skills",
      "Opinions", "Correction", "Wants", "Now",
      "Control", "Grace", "Assimilation", "Return",
      "Innocence", "Trickster", "Caring", "Struggle",
      "Commitment", "Recognition", "Influence", "Duration",
      "Privacy", "Power", "Change", "Crisis",
      "Friendship", "Fighter", "Provocation", "Aloneness",
      "Fantasy", "Growth", "Insight", "Coming to Meet",
      "Gathering", "Love of Body", "Oppression", "Depth",
      "Revolution", "Values", "Shock", "Inaction",
      "Development", "Drive", "Spirit", "Stimulation",
      "Intuition", "Joy", "Sexuality", "Limitation",
      "Mystery", "Details", "Doubt", "Confusion">>

getCrossName(sunGate) ==
    IF sunGate \in 1..Len(crossNames) THEN crossNames[sunGate] ELSE "Unknown"

\* the message of the TypeError of reading .Gate of a missing activation
MissingGateError == "Cannot read properties of undefined (reading 'Gate')"

\* variant: the cross type follows the Design Sun line
calculateIncarnationCross_DesignLine(pPlanets, dPlanets) ==
    IF "Earth" \notin DOMAIN pPlanets \/ "Earth" \notin DOMAIN dPlanets
    THEN [thrown |-> MissingGateError, value |-> <<>>]
    ELSE LET pSun == pPlanets.Sun.Gate
             pEarth == pPlanets.Earth.Gate
             dSun == dPlanets.Sun.Gate
             dEarth == dPlanets.Earth.Gate
             personalityLine == calculateProfile(pPlanets.Sun, dPlanets.Sun)[2]
             crossType == IF personalityLine <= 3 THEN "Right Angle Cross"
                          ELSE IF personalityLine <= 5 THEN "Juxtaposition Cross"
                          ELSE "Left Angle Cross"
         IN  [thrown |-> "",
              value |-> <<crossType, getCrossName(pSun),
                          pSun, pEarth, dSun, dEarth>>]

\* the label `${crossType} of ${name} (${pSun}/${pEarth} | ${dSun}/${dEarth})`
\* as its parts; reading Earth of a map without Earth throws
calculateIncarnationCross(pPlanets, dPlanets) ==
    IF "Earth" \notin DOMAIN pPlanets \/ "Earth" \notin DOMAIN dPlanets
    THEN [thrown |-> MissingGateError, value |-> <<>>]
    ELSE LET pSun == pPlanets.Sun.Gate
             pEarth == pPlanets.Earth.Gate
             dSun == dPlanets.Sun.Gate
             dEarth == dPlanets.Earth.Gate
             personalityLine == calculateProfile(pPlanets.Sun, dPlanets.Sun)[1]
             crossType == IF personalityLine <= 3 THEN "Right Angle Cross"
                          ELSE IF personalityLine <= 5 THEN "Juxtaposition Cross"
                          ELSE "Left Angle Cross"
         IN  [thrown |-> "",
              value |-> <<crossType, getCrossName(pSun),
                          pSun, pEarth, dSun, dEarth>>]

calculateDefinition(dCenters, chs) ==
    IF Len(dCenters) = 0 THEN "No Definition"
    ELSE IF Len(dCenters) = 1 THEN "Single Definition"
    ELSE IF Len(chs) = 1 /\ Len(dCenters) = 2 THEN "Single Definition"
    ELSE IF Len(dCenters) <= 3 THEN "Single Definition"
    ELSE IF Len(dCenters) <= 5 THEN "Split Definition"
    ELSE IF Len(dCenters) <= 7 THEN "Triple Split Definition"
    ELSE "Quadruple Split Definition"

\* a planet map reduced to the gates of its activations
GatesOf(planets) == [b \in DOMAIN planets |-> planets[b].Gate]

\* lines 103-199: from the two planet maps to the returned object, or to the
\* error thrown on the way
composeChart(pPlanets, dPlanets) ==
    LET gateArray == extractGates(GatesOf(pPlanets), GatesOf(dPlanets))
        chs == calculateChannels(gateArray)
        dCenters == calculateDefinedCenters(chs)
        oCenters == calculateOpenCenters(dCenters)
        t == determineType(Range(dCenters), chs)
        a == determineAuthority(Range(dCenters))
        profile == calculateProfile(pPlanets.Sun, dPlanets.Sun)
        incarnationCross == calculateIncarnationCross(pPlanets, dPlanets)
    IN  IF incarnationCross.thrown # ""
        THEN [thrown |-> incarnationCross.thrown, value |-> <<>>]
        ELSE [thrown |-> "",
              value |->
                [Type |-> t,
                 Strategy |-> getStrategy(t),
                 InnerAuthority |-> a,
                 Definition |-> calculateDefinition(dCenters, chs),
                 Profile |-> profile,
                 IncarnationCross |-> incarnationCross.value,
                 Signature |-> getSignature(t),
                 NotSelfTheme |-> getNotSelfTheme(t),
                 personality |-> pPlanets,
                 design |-> dPlanets,
                 definedCenters |-> dCenters,
                 openCenters |-> oCenters,
                 channels |-> chs,
                 gates |-> gateArray]]

\* variant: the error thrown names no cause
chartFailure_NoCause(message) == <<"Failed to calculate chart: ", "">>

\* lines 201-204: the error calculateChart rejects with
chartFailure(message) == <<"Failed to calculate chart: ", message>>

JulianDayError == "Failed to calculate Julian Day"

CallIds == 1..MaxCalls

NoCall ==
    [pc |-> "idle", params |-> <<>>, utcDate |-> 0, julianDay |-> 0,
     k |-> 0, personality |-> <<>>, design |-> <<>>, finder |-> <<>>,
     designJulianDay |-> 0, thrown |-> "", error |-> <<>>, value |-> <<>>]

\* lines 87-96: the invocation up to its first await, of getJulianDay
chartEntry(params) ==
    [NoCall EXCEPT !.pc = "julday",
                   !.params = params,
                   !.utcDate = utcInstant(params)]

\* birthTime as the wall-clock instant in ticks, 0 if it cannot be parsed
BirthTimes == {BirthTick, 0}

Coordinates == {<<238103, 904125>>}

\* the params of a request: latitude and longitude may be left out
ParamsChoices ==
    [birthTime : BirthTimes, timezone : DOMAIN utcOffset]
        \cup {[birthTime |-> b, timezone |-> z,
               latitude |-> c[1], longitude |-> c[2]] :
                  b \in BirthTimes, z \in DOMAIN utcOffset, c \in Coordinates}

\* the tick the answers of the provider are counted from
ProviderEpoch == BirthTick - SearchBackTicks - 5

\* provider failures: the bodies and the ticks from .. to - 1 after the epoch
\* (the scans lie before tick 1000, the birth instants after it)
ProviderFailures ==
    {<<{}, 0, 0>>, <<{"Sun"}, 1000, 3000>>, <<{"Sun"}, 0, 1000>>,
     <<{"North Node"}, 0, 3000>>, <<{"Moon"}, 0, 3000>>}

InitChart ==
    /\ \E f \in ProviderFailures :
          provider = [epoch |-> ProviderEpoch,
                      lonAtEpoch |-> Deg(309),
                      speed |-> 9 * Res,
                      spread |-> Deg(33),
                      failBodies |-> f[1],
                      failFrom |-> f[2],
                      failTo |-> f[3]]
    /\ calls = [id \in CallIds |-> NoCall]
    /\ InitOther({"provider", "chart"})

Finished(id) == calls[id].pc \in {"returned", "rejected"}

\* what calculateChart leaves alone
chartOthers ==
    <<encoderVars, resolverVars, channels, classifierVars, openCenters,
      compositeVars, solverVars, lateVars, done>>

\* lines 86-96: calculateChart is called and calls getJulianDay.  The
\* invocations of one behaviour run one after the other.
CalculateChart(id) ==
    /\ calls[id].pc = "idle"
    /\ \A j \in CallIds : j < id => Finished(j)
    /\ \E params \in ParamsChoices :
          calls' = [calls EXCEPT ![id] = chartEntry(params)]
    /\ UNCHANGED chartOthers

\* lines 219-220: swe_julday gave a truthy Julian day
JulianDayResolved(id) ==
    /\ calls[id].pc = "julday"
    /\ calls[id].utcDate # 0
    /\ calls' = [calls EXCEPT ![id].pc = "personality",
                              ![id].julianDay = calls[id].utcDate,
                              ![id].k = 1]
    /\ UNCHANGED chartOthers

\* lines 221-223 and 201-204: getJulianDay rejects, calculateChart rejects
JulianDayRejected(id) ==
    /\ calls[id].pc = "julday"
    /\ calls[id].utcDate = 0
    /\ calls' = [calls EXCEPT ![id].pc = "rejected",
                              ![id].thrown = JulianDayError,
                              ![id].error = chartFailure(JulianDayError)]
    /\ UNCHANGED chartOthers

Side(id) == calls[id].pc

\* variant: the design instant is kept in a field of the calculator, which
\* holds that of the invocation that was started last, once it has one
SideInstant_Shared(id) ==
    LET latest == CHOOSE j \in DOMAIN calls :
                      /\ calls[j].pc # "idle"
                      /\ \A l \in DOMAIN calls : calls[l].pc # "idle" => l <= j
    IN  IF Side(id) = "personality" THEN calls[id].julianDay
        ELSE IF calls[latest].designJulianDay # 0
        THEN calls[latest].designJulianDay
        ELSE calls[id].designJulianDay

\* the instant calculateSwissEphemerisPositions is computing for
SideInstant(id) ==
    IF Side(id) = "personality" THEN calls[id].julianDay
    ELSE calls[id].designJulianDay

InPositions(id) ==
    /\ Side(id) \in {"personality", "design"}
    /\ calls[id].k <= Len(QueriedBodies)

\* one turn of the loop of calculateSwissEphemerisPositions, provider answers
PlanetResolved(id) ==
    /\ InPositions(id)
    /\ LET planetName == QueriedBodies[calls[id].k]
       IN  /\ ~BodyFails(provider, planetName, SideInstant(id))
           /\ calls' = [calls EXCEPT
                 ![id].k = calls[id].k + 1,
                 ![id][Side(id)] = positionResolved(calls[id][Side(id)],
                     planetName,
                     BodyLongitudeAt(provider, planetName, SideInstant(id)))]
    /\ UNCHANGED chartOthers

\* one turn of the loop, provider fails: the catch block
PlanetRejected(id) ==
    /\ InPositions(id)
    /\ LET planetName == QueriedBodies[calls[id].k]
       IN  /\ BodyFails(provider, planetName, SideInstant(id))
           /\ calls' = [calls EXCEPT
                 ![id].k = calls[id].k + 1,
                 ![id][Side(id)] = positionRejected(calls[id][Side(id)],
                     planetName, SideInstant(id))]
    /\ UNCHANGED chartOthers

\* line 99: the Personality map is complete, findDesignDate is called
FindDesignDate(id) ==
    /\ Side(id) = "personality"
    /\ calls[id].k > Len(QueriedBodies)
    /\ calls' = [calls EXCEPT
          ![id].pc = "solver",
          ![id].finder = findDesignDateEntry(calls[id].julianDay,
                             calls[id].personality.Sun.eclipticLongitude)]
    /\ UNCHANGED chartOthers

InScan(id) == calls[id].pc = "solver" /\ calls[id].finder.pc = "loop"

InSample(id) == calls[id].pc = "solver" /\ calls[id].finder.pc = "await"

FinderCall(id) ==
    /\ InScan(id)
    /\ calls[id].finder.i < MaxIterations
    /\ calls' = [calls EXCEPT ![id].finder.pc = "await",
                              ![id].finder.calls = calls[id].finder.calls + 1]
    /\ UNCHANGED chartOthers

FinderResolve(id) ==
    /\ InSample(id)
    /\ ~SunFails(provider, currentJulianDay(calls[id].finder))
    /\ calls' = [calls EXCEPT ![id].finder =
          sampleResolved(calls[id].finder,
              SunLongitudeAt(provider, currentJulianDay(calls[id].finder)))]
    /\ UNCHANGED chartOthers

FinderReject(id) ==
    /\ InSample(id)
    /\ SunFails(provider, currentJulianDay(calls[id].finder))
    /\ calls' = [calls EXCEPT ![id].finder = sampleRejected(calls[id].finder)]
    /\ UNCHANGED chartOthers

FinderExhaust(id) ==
    /\ InScan(id)
    /\ calls[id].finder.i >= MaxIterations
    /\ calls' = [calls EXCEPT ![id].finder = scanExhausted(calls[id].finder)]
    /\ UNCHANGED chartOthers

\* lines 99-100: findDesignDate returned, the Design positions are computed
DesignDateFound(id) ==
    /\ calls[id].pc = "solver"
    /\ calls[id].finder.pc = "returned"
    /\ calls' = [calls EXCEPT ![id].pc = "design",
                              ![id].designJulianDay = calls[id].finder.result,
                              ![id].k = 1]
    /\ UNCHANGED chartOthers

\* lines 103-204: the Design map is complete; the chart is composed and
\* returned, or the error thrown on the way is caught and rethrown
ComposeChart(id) ==
    /\ Side(id) = "design"
    /\ calls[id].k > Len(QueriedBodies)
    /\ LET composed == composeChart(calls[id].personality, calls[id].design)
       IN  calls' = [calls EXCEPT
              ![id].pc = IF composed.thrown = "" THEN "returned" ELSE "rejected",
              ![id].thrown = composed.thrown,
              ![id].error = IF composed.thrown = "" THEN <<>>
                            ELSE chartFailure(composed.thrown),
              ![id].value = composed.value]
    /\ UNCHANGED chartOthers

NextChart ==
    \E id \in CallIds :
    \/ CalculateChart(id)
    \/ JulianDayResolved(id)
    \/ JulianDayRejected(id)
    \/ PlanetResolved(id)
    \/ PlanetRejected(id)
    \/ FindDesignDate(id)
    \/ FinderCall(id)
    \/ FinderResolve(id)
    \/ FinderReject(id)
    \/ FinderExhaust(id)
    \/ DesignDateFound(id)
    \/ ComposeChart(id)

SpecChart == InitChart /\ [][NextChart]_vars

Returned(id) == calls[id].pc = "returned"

Rejected(id) == calls[id].pc = "rejected"

---------------------------------------------------------------------------
(* Two invocations of calculateChart in flight on the shared calculator *)

\* lines 76-84: the fields the constructor sets
HDKitCalculator ==
    [flag |-> "SEFLG_MOSEPH", HD_OFFSET_DEGREES |-> HD_OFFSET_DEGREES]

\* findDesignDate run from its entry s to its return, nothing in between:
\* the first sample within the threshold, else the closest sample that
\* answered, else the fallback instant
scanAlone(P, s) ==
    LET at(i) == currentJulianDay([s EXCEPT !.i = i])
        answered(i) == ~SunFails(P, at(i))
        difference(i) == differenceFrom(s.targetLongitude,
                                        SunLongitudeAt(P, at(i)))
        hit(i) == answered(i) /\ BelowThreshold(difference(i))
        samples == 0..(MaxIterations - 1)
    IN  IF \E i \in samples : hit(i)
        THEN at(CHOOSE i \in samples : hit(i) /\ \A j \in 0..(i - 1) : ~hit(j))
        ELSE IF \E i \in samples : answered(i)
        THEN at(CHOOSE i \in samples :
                   /\ answered(i)
                   /\ \A j \in samples :
                         answered(j) =>
                            \/ difference(i) < difference(j)
                            \/ difference(i) = difference(j) /\ i <= j)
        ELSE scanExhausted(s).result

RECURSIVE positionsAlone(_, _, _, _)
\* calculateSwissEphemerisPositions run from planet k to its return
positionsAlone(P, julianDay, k, results) ==
    IF k > Len(QueriedBodies) THEN results
    ELSE LET planetName == QueriedBodies[k]
         IN  positionsAlone(P, julianDay, k + 1,
                 IF BodyFails(P, planetName, julianDay)
                 THEN positionRejected(results, planetName, julianDay)
                 ELSE positionResolved(results, planetName,
                          BodyLongitudeAt(P, planetName, julianDay)))

\* calculateChart run alone: how it ends, with which chart or error
chartAlone(P, params) ==
    IF utcInstant(params) = 0
    THEN [pc |-> "rejected", value |-> <<>>,
          error |-> chartFailure(JulianDayError)]
    ELSE LET julianDay == utcInstant(params)
             pPlanets == positionsAlone(P, julianDay, 1, <<>>)
             designJulianDay ==
                 scanAlone(P, findDesignDateEntry(julianDay,
                                  pPlanets.Sun.eclipticLongitude))
             dPlanets == positionsAlone(P, designJulianDay, 1, <<>>)
             composed == composeChart(pPlanets, dPlanets)
         IN  IF composed.thrown = ""
             THEN [pc |-> "returned", value |-> composed.value, error |-> <<>>]
             ELSE [pc |-> "rejected", value |-> <<>>,
                   error |-> chartFailure(composed.thrown)]

\* the two invocations
ConcurrentIds == {1, 2}

\* ticks between the two births, 50 days
BirthGap == 50 * TicksPerDay

\* the params of the two invocations: the second birth is later, or cannot
\* be parsed
ConcurrentParams ==
    {<<[birthTime |-> BirthTick, timezone |-> "UTC"], second>> :
        second \in {[birthTime |-> BirthTick + BirthGap, timezone |-> "UTC",
                     latitude |-> 407128, longitude |-> -740060],
                    [birthTime |-> 0, timezone |-> "UTC"]}}

\* no failure, or the Sun fails during the scan of the first invocation
InterleavedFailures == {<<{}, 0, 0>>, <<{"Sun"}, 0, 1000>>}

\* both invocations have been called and wait for their Julian day
InitInterleaved ==
    /\ \E f \in InterleavedFailures :
          provider = [epoch |-> ProviderEpoch,
                      lonAtEpoch |-> Deg(309),
                      speed |-> 9 * Res,
                      spread |-> Deg(33),
                      failBodies |-> f[1],
                      failFrom |-> f[2],
                      failTo |-> f[3]]
    /\ \E params \in ConcurrentParams :
          calls = [id \in CallIds |->
                      IF id \in ConcurrentIds THEN chartEntry(params[id])
                      ELSE NoCall]
    /\ calculator = HDKitCalculator
    /\ cross = <<>>
    /\ request = <<>>
    /\ InitOther({"provider", "chart", "cross", "request", "calculator"})

\* the continuations of the two invocations run in any order
NextInterleaved ==
    \E id \in ConcurrentIds :
    \/ JulianDayResolved(id)
    \/ JulianDayRejected(id)
    \/ PlanetResolved(id)
    \/ PlanetRejected(id)
    \/ FindDesignDate(id)
    \/ FinderCall(id)
    \/ FinderResolve(id)
    \/ FinderReject(id)
    \/ FinderExhaust(id)
    \/ DesignDateFound(id)
    \/ ComposeChart(id)

SpecInterleaved == InitInterleaved /\ [][NextInterleaved]_vars

---------------------------------------------------------------------------
(* The routes /hd-data and /hd-data-composite *)

MinutesPerTick == 1440 \div TicksPerDay

\* format('Do MMMM YYYY @ HH:mm'): the calendar day and the minute of the day
formatMinute(instant) ==
    [day |-> instant \div TicksPerDay,
     minute |-> (instant % TicksPerDay) * MinutesPerTick]

\* moment.tz(date, timezone) of a date string: its instant, 0 if invalid
momentTz(date, timezone) ==
    IF date = 0 THEN 0 ELSE date - utcOffset[timezone]

\* res.status(400).json(...)
badRequest(r, error) ==
    [r EXCEPT !.pc = "sent",
              !.response = [status |-> 400, body |-> [error |-> error]]]

\* the params of a calculateChart call: birthMoment.toDate(), the zone and
\* the fixed coordinates, in 1/10000 degree
chartParams(birthMoment, timezone, coordinates) ==
    [birthTime |-> birthMoment, isDate |-> TRUE, timezone |-> timezone,
     latitude |-> coordinates[1], longitude |-> coordinates[2]]

London == <<515074, -1278>>

NewYork == <<407128, -740060>>

\* part_002 lines 9-36: /hd-data up to the await of calculateChart
hdDataEntry(r) ==
    LET query == r.query
    IN  IF "date" \notin DOMAIN query \/ "timezone" \notin DOMAIN query
        THEN badRequest(r, "Missing required parameters")
        ELSE IF momentTz(query.date, query.timezone) = 0
        THEN badRequest(r, "Invalid date or timezone")
        ELSE [r EXCEPT !.pc = "chart",
                       !.birthMoment1 = momentTz(query.date, query.timezone),
                       !.params = chartParams(
                                     momentTz(query.date, query.timezone),
                                     query.timezone, London)]

\* part_002 lines 39-64: the chart resolved, the response is sent
hdDataResolved(r, chartData) ==
    [r EXCEPT
        !.pc = "sent",
        !.chart1 = chartData,
        !.response =
            [status |-> 200,
             body |->
                [BirthDateLocal |->
                     formatMinute(r.birthMoment1 + utcOffset[r.query.timezone]),
                 BirthDateUtc |-> formatMinute(r.birthMoment1),
                 DesignDateUtc |->
                     formatMinute(r.birthMoment1 - 88 * TicksPerDay),
                 Type |-> chartData.Type,
                 Profile |-> chartData.Profile,
                 IncarnationCross |-> chartData.IncarnationCross,
                 Personality |-> chartData.personality,
                 Design |-> chartData.design,
                 DefinedCenters |-> chartData.definedCenters,
                 OpenCenters |-> chartData.openCenters,
                 Channels |-> chartData.channels,
                 Gates |-> chartData.gates]]]

\* the body of a 500 response: JSON drops details when it is undefined
failureBody(r, title, message, error) ==
    IF r.development
    THEN [error |-> title, message |-> message, details |-> error]
    ELSE [error |-> title, message |-> message]

\* part_002 lines 66-73: the catch block of /hd-data
hdDataRejected(r, error) ==
    [r EXCEPT !.pc = "sent",
              !.response =
                  [status |-> 500,
                   body |-> failureBody(r, "Chart calculation failed",
                                "Unable to calculate Human Design chart",
                                error)]]

\* part_002 lines 79-106: /hd-data-composite up to the await of the first
\* calculateChart
hdDataCompositeEntry(r) ==
    LET query == r.query
    IN  IF \E key \in {"date", "timezone", "date1", "timezone1"} :
               key \notin DOMAIN query
        THEN badRequest(r, "Missing required parameters")
        ELSE IF \/ momentTz(query.date, query.timezone) = 0
                \/ momentTz(query.date1, query.timezone1) = 0
        THEN badRequest(r, "Invalid date or timezone")
        ELSE [r EXCEPT !.pc = "chart1",
                       !.birthMoment1 = momentTz(query.date, query.timezone),
                       !.birthMoment2 = momentTz(query.date1, query.timezone1),
                       !.params = chartParams(
                                     momentTz(query.date, query.timezone),
                                     query.timezone, London)]

\* part_002 lines 101-113: chart1 resolved, the second calculateChart is
\* called and awaited
chart1Resolved(r, chart) ==
    [r EXCEPT !.pc = "chart2",
              !.chart1 = chart,
              !.params = chartParams(r.birthMoment2, r.query.timezone1,
                                     NewYork)]

\* variant: a failure of the second chart answers with the first chart alone
compositeRejected_Partial(r, error) ==
    [r EXCEPT !.pc = "sent",
              !.response =
                  [status |-> 500,
                   body |-> failureBody(r, "Composite chart calculation failed",
                                "Unable to calculate relationship chart",
                                error)
                            @@ (IF r.chart1 # <<>>
                                THEN "0" :> [BirthDateUtc |->
                                                formatMinute(r.birthMoment1),
                                             chart |-> r.chart1]
                                ELSE <<>>)]]

\* part_002 lines 149-156: the catch block of /hd-data-composite
compositeRejected(r, error) ==
    [r EXCEPT !.pc = "sent",
              !.response =
                  [status |-> 500,
                   body |-> failureBody(r, "Composite chart calculation failed",
                                "Unable to calculate relationship chart",
                                error)]]

\* part_002 lines 108-147: chart2 resolved, the charts are merged and the
\* response is sent
chart2Resolved(r, chart) ==
    LET merged == calculateComposite(r.chart1, chart)
    IN  [r EXCEPT
            !.pc = "sent",
            !.chart2 = chart,
            !.composite = merged,
            !.response =
                [status |-> 200,
                 body |-> "0" :> [BirthDateUtc |-> formatMinute(r.birthMoment1),
                                  chart |-> r.chart1]
                          @@ "1" :> [BirthDateUtc |->
                                         formatMinute(r.birthMoment2),
                                     chart |-> chart]
                          @@ "Combined" :> merged]]

\* date strings as wall-clock instants in ticks, 0 if unparsable
RouteDates == {0, BirthTick, BirthTick + BirthGap}

TimeZones == DOMAIN utcOffset

\* req.query of /hd-data: both parameters, or one of them missing
HdDataQueries ==
    {[date |-> d, timezone |-> z] : d \in RouteDates, z \in TimeZones}
    \cup {[date |-> BirthTick], [timezone |-> "UTC"]}

\* req.query of /hd-data-composite: the four parameters, or one missing
HdDataCompositeQueries ==
    {[date |-> d, timezone |-> z, date1 |-> d1, timezone1 |-> z1] :
        d \in RouteDates, z \in TimeZones, d1 \in RouteDates, z1 \in TimeZones}
    \cup {[date |-> BirthTick, timezone |-> "UTC", date1 |-> BirthTick],
          [date |-> BirthTick, timezone |-> "UTC", timezone1 |-> "UTC"]}

\* no failure, or the Sun fails during the design scan of the earlier birth,
\* or during that of the later birth
RouteFailures == {<<{}, 0, 0>>, <<{"Sun"}, 0, 1000>>, <<{"Sun"}, 1000, 1500>>}

\* a request as it arrives; development is NODE_ENV === 'development'
Arrived(route, query, development) ==
    [route |-> route, query |-> query, development |-> development,
     pc |-> "arrived", birthMoment1 |-> 0, birthMoment2 |-> 0,
     params |-> <<>>, chart1 |-> <<>>, chart2 |-> <<>>, composite |-> <<>>,
     response |-> <<>>]

InitRoutes ==
    /\ \E f \in RouteFailures :
          provider = [epoch |-> ProviderEpoch,
                      lonAtEpoch |-> Deg(309),
                      speed |-> 9 * Res,
                      spread |-> Deg(33),
                      failBodies |-> f[1],
                      failFrom |-> f[2],
                      failTo |-> f[3]]
    /\ request \in
          {Arrived("/hd-data", q, d) : q \in HdDataQueries, d \in BOOLEAN}
          \cup {Arrived("/hd-data-composite", q, d) :
                   q \in HdDataCompositeQueries, d \in BOOLEAN}
    /\ calculator = HDKitCalculator
    /\ calls = [id \in CallIds |-> NoCall]
    /\ cross = <<>>
    /\ InitOther({"provider", "chart", "cross", "request", "calculator"})

routeOthers ==
    <<encoderVars, resolverVars, channels, classifierVars, openCenters,
      compositeVars,
      solverVars, chartVars, cross, calculator, done>>

\* what the awaited calculateChart call settles with
Awaited == chartAlone(provider, request.params)

HdData ==
    /\ request.route = "/hd-data"
    /\ request.pc = "arrived"
    /\ request' = hdDataEntry(request)
    /\ UNCHANGED routeOthers

HdDataResolved ==
    /\ request.route = "/hd-data"
    /\ request.pc = "chart"
    /\ Awaited.pc = "returned"
    /\ request' = hdDataResolved(request, Awaited.value)
    /\ UNCHANGED routeOthers

HdDataRejected ==
    /\ request.route = "/hd-data"
    /\ request.pc = "chart"
    /\ Awaited.pc = "rejected"
    /\ request' = hdDataRejected(request, Awaited.error)
    /\ UNCHANGED routeOthers

HdDataComposite ==
    /\ request.route = "/hd-data-composite"
    /\ request.pc = "arrived"
    /\ request' = hdDataCompositeEntry(request)
    /\ UNCHANGED routeOthers

Chart1Resolved ==
    /\ request.pc = "chart1"
    /\ Awaited.pc = "returned"
    /\ request' = chart1Resolved(request, Awaited.value)
    /\ UNCHANGED routeOthers

Chart1Rejected ==
    /\ request.pc = "chart1"
    /\ Awaited.pc = "rejected"
    /\ request' = compositeRejected(request, Awaited.error)
    /\ UNCHANGED routeOthers

Chart2Resolved ==
    /\ request.pc = "chart2"
    /\ Awaited.pc = "returned"
    /\ request' = chart2Resolved(request, Awaited.value)
    /\ UNCHANGED routeOthers

Chart2Rejected ==
    /\ request.pc = "chart2"
    /\ Awaited.pc = "rejected"
    /\ request' = compositeRejected(request, Awaited.error)
    /\ UNCHANGED routeOthers

NextRoutes ==
    \/ HdData
    \/ HdDataResolved
    \/ HdDataRejected
    \/ HdDataComposite
    \/ Chart1Resolved
    \/ Chart1Rejected
    \/ Chart2Resolved
    \/ Chart2Rejected

SpecRoutes == InitRoutes /\ [][NextRoutes]_vars

Sent == request.pc = "sent"

---------------------------------------------------------------------------
(* calculateChart lines 106-113: from the gates to the type *)

\* most gates active in a chart of this specification
MaxGates == 4

\* gates of the channels 1-8 (G, Throat), 5-15 (Sacral, G), 12-22 (Throat,
\* Solar Plexus), 26-44 (Heart, Splenic) and of the cluster around 10, 20, 34
\* and 57
AssemblyGates == {1, 8, 5, 15, 12, 22, 26, 44, 10, 20, 34, 57}

\* the arrays extractGates can return over these gates
GateArrays ==
    {SortAscending(S) :
        S \in {T \in SUBSET AssemblyGates : Cardinality(T) <= MaxGates}}

InitAssembly ==
    /\ gates \in GateArrays
    /\ personalityPlanets = <<>> /\ designPlanets = <<>>
    /\ channels = <<>>
    /\ definedCenters = <<>>
    /\ openCenters = <<>>
    /\ type = "" /\ typeReturn = 0 /\ authority = ""
    /\ InitOther({"resolver", "channels", "classifier", "centers"})

assemblyOthers ==
    <<encoderVars, personalityPlanets, designPlanets, gates, compositeVars,
      solverVars, chartVars, lateVars>>

\* line 107
ChartChannels ==
    /\ done = {}
    /\ channels' = calculateChannels(gates)
    /\ done' = {"channels"}
    /\ UNCHANGED <<definedCenters, openCenters, classifierVars>>
    /\ UNCHANGED assemblyOthers

\* line 108
ChartDefinedCenters ==
    /\ done = {"channels"}
    /\ definedCenters' = calculateDefinedCenters(channels)
    /\ done' = done \cup {"definedCenters"}
    /\ UNCHANGED <<channels, openCenters, type, typeReturn, authority>>
    /\ UNCHANGED assemblyOthers

\* line 109
ChartOpenCenters ==
    /\ done = {"channels", "definedCenters"}
    /\ openCenters' = calculateOpenCenters(definedCenters)
    /\ done' = done \cup {"openCenters"}
    /\ UNCHANGED <<channels, definedCenters, type, typeReturn, authority>>
    /\ UNCHANGED assemblyOthers

\* line 112
ChartType ==
    /\ done = {"channels", "definedCenters", "openCenters"}
    /\ type' = determineType(Range(definedCenters), channels)
    /\ typeReturn' = determineTypeReturn(Range(definedCenters), channels)
    /\ done' = done \cup {"type"}
    /\ UNCHANGED <<channels, definedCenters, openCenters, authority>>
    /\ UNCHANGED assemblyOthers

\* line 113
ChartAuthority ==
    /\ done = {"channels", "definedCenters", "openCenters", "type"}
    /\ authority' = determineAuthority(Range(definedCenters))
    /\ done' = done \cup {"authority"}
    /\ UNCHANGED <<channels, definedCenters, openCenters, type, typeReturn>>
    /\ UNCHANGED assemblyOthers

NextAssembly ==
    \/ ChartChannels
    \/ ChartDefinedCenters
    \/ ChartOpenCenters
    \/ ChartType
    \/ ChartAuthority

SpecAssembly == InitAssembly /\ [][NextAssembly]_vars

Assembled == "authority" \in done

---------------------------------------------------------------------------
(* calculateSwissEphemerisPositions: the derived bodies *)

\* the longitudes swe_calc_ut reports: [0, 360) degrees
ReportedLongitudes == 0 .. (Deg(360) - 1)

\* the Sun and the North Node are both reported at the longitude drawn
InitPositions ==
    /\ longitude \in ReportedLongitudes
    /\ activation = NoActivation
    /\ personalityPlanets = <<>>
    /\ designPlanets = <<>>
    /\ gates = <<>>
    /\ InitOther({"encoder", "resolver"})

positionsOthers ==
    <<encoderVars, designPlanets, gates, channels, classifierVars, extVars>>

\* lines 252-259: the Sun resolved
SunResolved ==
    /\ "Sun" \notin done
    /\ personalityPlanets' = positionResolved(personalityPlanets, "Sun",
                                              longitude)
    /\ done' = done \cup {"Sun"}
    /\ UNCHANGED positionsOthers

\* lines 252-265: the North Node resolved
NorthNodeResolved ==
    /\ "North Node" \notin done
    /\ personalityPlanets' = positionResolved(personalityPlanets, "North Node",
                                              longitude)
    /\ done' = done \cup {"North Node"}
    /\ UNCHANGED positionsOthers

NextPositions == SunResolved \/ NorthNodeResolved

SpecPositions == InitPositions /\ [][NextPositions]_vars

---------------------------------------------------------------------------
(* Profile and incarnation cross: calculateProfile, calculateIncarnationCross *)

\* the start of each of the 384 lines of the wheel
LineStarts == {k * (Deg(360) \div 384) : k \in 0..383}

\* one longitude in each line of a gate, for the Design Sun
DesignSunLongitudes == {k * (Deg(360) \div 384) + Res : k \in 0..5}

\* the planet map calculateSwissEphemerisPositions builds from a Sun answer
SunAndEarth(lon) == positionResolved(<<>>, "Sun", lon)

InitCross ==
    /\ \E p \in LineStarts, d \in DesignSunLongitudes :
          cross = [personalityPlanets |-> SunAndEarth(p),
                   designPlanets |-> SunAndEarth(d),
                   profile |-> <<>>,
                   incarnationCross |-> <<>>]
    /\ request = <<>>
    /\ InitOther({"cross", "request"})

crossOthers ==
    <<encoderVars, resolverVars, channels, classifierVars, openCenters,
      compositeVars, solverVars, chartVars, request, calculator>>

CalculateProfile ==
    /\ "calculateProfile" \notin done
    /\ cross' = [cross EXCEPT !.profile =
                    calculateProfile(cross.personalityPlanets.Sun,
                                     cross.designPlanets.Sun)]
    /\ done' = done \cup {"calculateProfile"}
    /\ UNCHANGED crossOthers

CalculateIncarnationCross ==
    /\ "calculateProfile" \in done
    /\ "calculateIncarnationCross" \notin done
    /\ cross' = [cross EXCEPT !.incarnationCross =
                    calculateIncarnationCross(cross.personalityPlanets,
                                              cross.designPlanets).value]
    /\ done' = done \cup {"calculateIncarnationCross"}
    /\ UNCHANGED crossOthers

NextCross == CalculateProfile \/ CalculateIncarnationCross

SpecCross == InitCross /\ [][NextCross]_vars

Crossed == "calculateIncarnationCross" \in done

---------------------------------------------------------------------------
(* Claims about the classifier, checked under SpecClassifier *)

\* a key of the motor-to-throat list is among the channels passed in
MotorChannelFormed ==
    \E i \in 1..Len(channels) :
        \E j \in 1..Len(motorToThroatChannels) :
            channels[i] = motorToThroatChannels[j]

SacralDefined == "Sacral center" \in definedCenters

\* C5: determineType returns Reflector if and only if definedCenters is
\* empty, whatever the channel list contains.
C5_ReflectorIffNoCenter ==
    Typed => (type = "Reflector" <=> definedCenters = {})

\* C5 witness: no defined center, yet a motor-to-throat channel in the list
C5_Witness ==
    /\ Typed /\ definedCenters = {} /\ MotorChannelFormed
    /\ type = "Reflector"

\* C6: determineType applies its rules in priority order and is total:
\* no center gives Reflector; else Sacral without motor-to-throat gives
\* Generator; Sacral with motor-to-throat gives Manifesting Generator; no
\* Sacral with motor-to-throat gives Manifestor; the rest gives Projector;
\* the final default return is never taken.
C6_TypeRules ==
    Typed =>
        /\ typeReturn \in 1..5
        /\ type \in {"Reflector", "Generator", "Manifesting Generator",
                     "Manifestor", "Projector"}
        /\ definedCenters = {} => type = "Reflector"
        /\ (definedCenters # {} /\ SacralDefined /\ ~MotorChannelFormed)
              => type = "Generator"
        /\ (definedCenters # {} /\ SacralDefined /\ MotorChannelFormed)
              => type = "Manifesting Generator"
        /\ (definedCenters # {} /\ ~SacralDefined /\ MotorChannelFormed)
              => type = "Manifestor"
        /\ (definedCenters # {} /\ ~SacralDefined /\ ~MotorChannelFormed)
              => type = "Projector"

\* C6 witness: a Manifesting Generator through the channel 26-44
C6_Witness ==
    /\ Typed /\ SacralDefined /\ Includes(channels, <<26, 44>>)
    /\ type = "Manifesting Generator"

\* C7: determineAuthority tests Solar Plexus, Sacral, Splenic, Heart, G in
\* that order; the first defined one decides, whatever else is defined.
C7_InnerAuthorityOrder ==
    LET SP == "Solar Plexus center" \in definedCenters
        SA == "Sacral center" \in definedCenters
        SL == "Splenic center" \in definedCenters
        HE == "Heart center" \in definedCenters
        GC == "G center" \in definedCenters
    IN  Authorized =>
          /\ SP => authority = "Emotional - Solar Plexus"
          /\ (~SP /\ SA) => authority = "Sacral"
          /\ (~SP /\ ~SA /\ SL) => authority = "Splenic"
          /\ (~SP /\ ~SA /\ ~SL /\ HE) => authority = "Heart"
          /\ (~SP /\ ~SA /\ ~SL /\ ~HE /\ GC) => authority = "Self-Projected"

\* C7 witness: all nine centers defined, the Solar Plexus wins
C7_Witness ==
    /\ Authorized /\ definedCenters = AllCenters
    /\ authority = "Emotional - Solar Plexus"

\* C8: with none of Solar Plexus, Sacral, Splenic, Heart and G defined,
\* determineAuthority returns Throat if the Throat is defined, else Mental
\* if the Ajna is defined, else Lunar (so no defined center gives Lunar).
C8_MentalFallThrough ==
    (Authorized /\ definedCenters \cap
        {"Solar Plexus center", "Sacral center", "Splenic center",
         "Heart center", "G center"} = {}) =>
        authority = IF "Throat center" \in definedCenters THEN "Throat"
                    ELSE IF "Ajna center" \in definedCenters THEN "Mental"
                    ELSE "Lunar"

---------------------------------------------------------------------------
(* Claims about the channel resolver, checked under SpecResolver *)

ActivatedGates == Range(personalityPlanets) \cup Range(designPlanets)

\* C9: calculateChannels returns a catalog channel iff both of its gates
\* are activated by any body of either side, each formed channel once.
C9_FormedIffBothGates ==
    Resolved =>
        /\ \A i \in 1..Len(channelDefinitions) :
              Includes(channels, channelDefinitions[i]) <=>
                  (channelDefinitions[i][1] \in ActivatedGates
                     /\ channelDefinitions[i][2] \in ActivatedGates)
        /\ \A i, j \in 1..Len(channels) : channels[i] = channels[j] => i = j

\* C9 witness: a channel formed by one gate carried only by the Personality
\* side and one carried only by the Design side
C9_Witness ==
    /\ Resolved
    /\ \E i \in 1..Len(channels) :
          /\ channels[i][1] \in Range(personalityPlanets) \ Range(designPlanets)
          /\ channels[i][2] \in Range(designPlanets) \ Range(personalityPlanets)

CatalogClosed ==
    Resolved =>
        /\ \A i \in 1..Len(channels) : Includes(channelDefinitions, channels[i])
        /\ Cardinality(Range(channels)) <= Len(channelDefinitions)

\* C10 as stated: the catalog has exactly 34 gate pairs and calculateChannels
\* never reports a channel outside it.
C10_Catalog34 ==
    Resolved =>
        /\ Len(channelDefinitions) = 34
        /\ Cardinality(Range(channelDefinitions)) = 34
        /\ CatalogClosed

\* C10 amended: the catalog has exactly 36 gate pairs and calculateChannels
\* never reports a channel outside it (at most 36 distinct channels).
C10_Catalog36 ==
    Resolved =>
        /\ Len(channelDefinitions) = 36
        /\ Cardinality(Range(channelDefinitions)) = 36
        /\ CatalogClosed

\* C10 witness: several channels formed at once
C10_Witness == Resolved /\ Len(channels) >= 3

---------------------------------------------------------------------------
(* Claims about the center resolver, checked under SpecCenters *)

\* the canonical name of each center name used in the channel table
CanonicalCenter ==
    [x \in {"G", "Throat", "Sacral", "Root", "Ajna", "Head", "Solar Plexus",
            "Splenic", "Heart"} |->
        CASE x = "G" -> "G center"
          [] x = "Throat" -> "Throat center"
          [] x = "Sacral" -> "Sacral center"
          [] x = "Root" -> "Root center"
          [] x = "Ajna" -> "Ajna center"
          [] x = "Head" -> "Head center"
          [] x = "Solar Plexus" -> "Solar Plexus center"
          [] x = "Splenic" -> "Splenic center"
          [] x = "Heart" -> "Heart center"]

NineCenters ==
    {"Root center", "Sacral center", "Solar Plexus center", "Splenic center",
     "Heart center", "G center", "Throat center", "Ajna center", "Head center"}

\* a formed channel maps to center c in the channel-to-center table
SomeChannelMapsTo(c) ==
    \E i \in 1..Len(channels) :
        \E j \in 1..2 : CanonicalCenter[channelToCenters[channels[i]][j]] = c

\* C11: every catalog channel has a table entry of two distinct canonical
\* centers; a center is defined iff some formed channel maps to it; the
\* open centers are the nine centers minus the defined ones, so defined and
\* open are disjoint and together are all nine.
C11_DefinedIffMapped ==
    CentersDone =>
        /\ \A i \in 1..Len(channelDefinitions) :
              /\ channelDefinitions[i] \in DOMAIN channelToCenters
              /\ channelToCenters[channelDefinitions[i]][1]
                    # channelToCenters[channelDefinitions[i]][2]
              /\ \A j \in 1..2 :
                    channelToCenters[channelDefinitions[i]][j]
                        \in DOMAIN CanonicalCenter
        /\ \A c \in NineCenters :
              Includes(definedCenters, c) <=> SomeChannelMapsTo(c)
        /\ Range(definedCenters) \subseteq NineCenters
        /\ Range(openCenters) = NineCenters \ Range(definedCenters)
        /\ Range(definedCenters) \cap Range(openCenters) = {}
        /\ Range(definedCenters) \cup Range(openCenters) = NineCenters

\* C11 witness: two formed channels that share a center define three centers
C11_Witness ==
    /\ CentersDone /\ Len(channels) = 2 /\ channels[1] # channels[2]
    /\ Len(definedCenters) = 3 /\ Len(openCenters) = 6

---------------------------------------------------------------------------
(* Claims about the composite merger, checked under SpecComposite *)

NoDuplicates(array) ==
    \A i, j \in 1..Len(array) : array[i] = array[j] => i = j

\* C16: calculateComposite returns DefinedCenters equal, as a set without
\* duplicates, to the union of the two charts' defined centers, and
\* OpenCenters equal to the nine centers minus that union.
C16_CompositeCenters ==
    Merged =>
        LET union == Range(chart1.definedCenters) \cup Range(chart2.definedCenters)
        IN  /\ Range(composite.DefinedCenters) = union
            /\ NoDuplicates(composite.DefinedCenters)
            /\ Range(composite.OpenCenters) = NineCenters \ union
            /\ NoDuplicates(composite.OpenCenters)
            /\ Range(composite.DefinedCenters) \cap Range(composite.OpenCenters) = {}
            /\ Range(composite.DefinedCenters) \cup Range(composite.OpenCenters)
                  = NineCenters

\* C16 witness: the charts share a defined center and each has one of its own
C16_Witness ==
    /\ Merged
    /\ Range(chart1.definedCenters) \cap Range(chart2.definedCenters) # {}
    /\ Range(chart1.definedCenters) \ Range(chart2.definedCenters) # {}
    /\ Range(chart2.definedCenters) \ Range(chart1.definedCenters) # {}

\* the position of x in an array without duplicates
PositionIn(array, x) == CHOOSE i \in 1..Len(array) : array[i] = x

\* list is the first at most n elements of from that are not in other
FirstOfDifference(list, from, other, n) ==
    LET diff == Range(from) \ Range(other)
    IN  /\ Range(list) \subseteq diff
        /\ Len(list) = IF Cardinality(diff) < n THEN Cardinality(diff) ELSE n
        /\ \A i, j \in 1..Len(list) :
              i < j => PositionIn(from, list[i]) < PositionIn(from, list[j])
        /\ \A x \in diff \ Range(list) :
              \A i \in 1..Len(list) :
                  PositionIn(from, list[i]) < PositionIn(from, x)

\* C17: Companionship is exactly the channels in both lists, Dominance the
\* first at most 3 channels of A not in B, Compromise the first at most 3
\* channels of B not in A, Electromagnetic is empty, and Companionship,
\* Dominance and Compromise are pairwise disjoint.
C17_RelationshipBuckets ==
    Merged =>
        LET A == chart1.channels
            B == chart2.channels
            R == composite.RelationshipChannels
        IN  /\ Range(R.Companionship) = Range(A) \cap Range(B)
            /\ NoDuplicates(R.Companionship)
            /\ FirstOfDifference(R.Dominance, A, B, 3)
            /\ FirstOfDifference(R.Compromise, B, A, 3)
            /\ R.Electromagnetic = <<>>
            /\ Range(R.Companionship) \cap Range(R.Dominance) = {}
            /\ Range(R.Companionship) \cap Range(R.Compromise) = {}
            /\ Range(R.Dominance) \cap Range(R.Compromise) = {}

\* C17 witness: a shared channel, and more than three channels only in A
C17_Witness ==
    /\ Merged
    /\ Len(composite.RelationshipChannels.Companionship) >= 1
    /\ Len(composite.RelationshipChannels.Dominance) = 3
    /\ Cardinality(Range(chart1.channels) \ Range(chart2.channels)) > 3

\* every channel key that occurs anywhere in the result of calculateComposite
ChannelsInComposite ==
    Range(composite.RelationshipChannels.Companionship)
        \cup Range(composite.RelationshipChannels.Dominance)
        \cup Range(composite.RelationshipChannels.Compromise)
        \cup Range(composite.RelationshipChannels.Electromagnetic)

\* C18: the result of calculateComposite makes available the full set of
\* channels formed only in chart 1 and the full set formed only in chart 2,
\* also when either has more than 3 members.
C18_FullSetsAvailable ==
    Merged =>
        /\ Range(chart1.channels) \ Range(chart2.channels)
              \subseteq ChannelsInComposite
        /\ Range(chart2.channels) \ Range(chart1.channels)
              \subseteq ChannelsInComposite

---------------------------------------------------------------------------
(* Claims about the design-moment solver, checked under SpecSolver *)

Samples == 0 .. (MaxIterations - 1)

\* the instant of sample i: birth - 95 days + 0.05 * i days
SampleInstant(i) == solver.personalityJulianDay - 95 * TicksPerDay + i

\* (birthSunLongitude - 88 + 360) mod 360
TargetOf(birthSunLongitude) == (birthSunLongitude + Deg(272)) % Deg(360)

Min2(a, b) == IF a < b THEN a ELSE b

\* min(|a - b|, 360 - |a - b|)
CircularDistance(a, b) == Min2(Abs(a - b), Deg(360) - Abs(a - b))

\* the samples the provider answers
Evaluated == {i \in Samples : ~SunFails(provider, SampleInstant(i))}

SampleDistance(i) ==
    CircularDistance(TargetOf(solver.sunLongitude),
                     SunLongitudeAt(provider, SampleInstant(i)))

\* the answered samples within 0.05 degrees of the target
Converging == {i \in Evaluated : BelowThreshold(SampleDistance(i))}

Earliest(S) == CHOOSE i \in S : \A j \in S : i <= j

\* the answered samples no other answered sample is closer than
Closest ==
    LET answered == Evaluated
        distances == {SampleDistance(i) : i \in answered}
        smallest == CHOOSE d \in distances : \A e \in distances : d <= e
    IN  {i \in answered : SampleDistance(i) = smallest}

\* C12: if an answered sample is within 0.05 degrees of the target the solver
\* returns the earliest such sample and has called the provider for no later
\* sample; otherwise, if any sample was answered, it returns the earliest of
\* the answered samples closest to the target.
C12_ScanResult ==
    SolverReturned =>
        /\ Converging # {} =>
              /\ solver.result = SampleInstant(Earliest(Converging))
              /\ solver.calls = Earliest(Converging) + 1
        /\ (Converging = {} /\ Evaluated # {}) =>
              /\ solver.result = SampleInstant(Earliest(Closest))
              /\ solver.calls = MaxIterations

\* the scan ended without convergence and two answered samples tie for the
\* smallest distance; the earlier one is returned
C12_Witness ==
    /\ SolverReturned
    /\ Converging = {}
    /\ Cardinality(Closest) >= 2
    /\ solver.result = SampleInstant(Earliest(Closest))

\* C13 as stated: whenever no sample of the window is within 0.05 degrees of
\* the target, the solver returns birth - 88.5 days.
C13_FallbackOnNonConvergence ==
    (SolverReturned /\ Converging = {}) =>
        solver.result = solver.personalityJulianDay - FallbackBackTicks

\* C13 amended: the solver never ends in an error; when no sample of the
\* window was answered it returns birth - 88.5 days, and when samples were
\* answered but none is within 0.05 degrees it returns one of the answered
\* samples closest to the target.
C13_FallbackWhenNothingEvaluated ==
    /\ solver.pc \in {"idle", "loop", "await", "returned"}
    /\ (SolverReturned /\ Evaluated = {}) =>
          solver.result = solver.personalityJulianDay - FallbackBackTicks
    /\ (SolverReturned /\ Evaluated # {} /\ Converging = {}) =>
          \E i \in Closest : solver.result = SampleInstant(i)

\* every one of the 400 provider calls failed and the fallback was returned
C13_Witness ==
    /\ SolverReturned
    /\ Evaluated = {}
    /\ solver.calls = MaxIterations
    /\ solver.result = solver.personalityJulianDay - FallbackBackTicks

---------------------------------------------------------------------------
(* Claims about the chart computation, checked under SpecChart *)

TrackedBodies ==
    {"Sun", "Earth", "Moon", "Mercury", "Venus", "Mars", "Jupiter", "Saturn",
     "Uranus", "Neptune", "Pluto", "North Node", "South Node"}

\* the provider failed for a body while the call computed a side
ProviderFailedIn(id) ==
    \E b \in provider.failBodies :
        \/ BodyFails(provider, b, calls[id].julianDay)
        \/ BodyFails(provider, b, calls[id].designJulianDay)

\* C14: a call whose Julian day was computed and in which the provider failed
\* for a single body at the birth instant or at the design instant still
\* returns a chart.
C14_ProviderFailureRecovered ==
    \A id \in CallIds :
        (Finished(id) /\ calls[id].julianDay # 0 /\ ProviderFailedIn(id))
            => Returned(id)

\* C15: in every returned chart both the Personality map and the Design map
\* hold an activation for each of the 13 tracked bodies.
C15_AllBodiesPresent ==
    \A id \in CallIds :
        Returned(id) =>
            /\ DOMAIN calls[id].value.personality = TrackedBodies
            /\ DOMAIN calls[id].value.design = TrackedBodies

ChartFields ==
    {"Type", "Strategy", "InnerAuthority", "Definition", "Profile",
     "IncarnationCross", "Signature", "NotSelfTheme", "personality", "design",
     "definedCenters", "openCenters", "channels", "gates"}

\* C19: a call in which a step threw ends rejected, returns no chart and its
\* error is the computation failure carrying the message of the error thrown;
\* a chart is delivered only by a call in which nothing threw, and then with
\* every field filled; an unfinished call has delivered nothing.
C19_FailsAtomically ==
    \A id \in CallIds :
        /\ calls[id].thrown # "" =>
              /\ Rejected(id)
              /\ calls[id].value = <<>>
              /\ calls[id].error =
                    <<"Failed to calculate chart: ", calls[id].thrown>>
        /\ Rejected(id) => calls[id].thrown \in {JulianDayError, MissingGateError}
        /\ Returned(id) =>
              /\ calls[id].thrown = ""
              /\ calls[id].error = <<>>
              /\ DOMAIN calls[id].value = ChartFields
        /\ ~Returned(id) => calls[id].value = <<>>

\* a call rejected by the lookup of a missing activation after both planet
\* maps had been computed
C19_Witness ==
    \E id \in CallIds :
        /\ Rejected(id)
        /\ calls[id].thrown = MissingGateError
        /\ calls[id].error = <<"Failed to calculate chart: ", MissingGateError>>
        /\ DOMAIN calls[id].design # {}
        /\ calls[id].value = <<>>

SameBirth(i, j) ==
    /\ calls[i].params.birthTime = calls[j].params.birthTime
    /\ calls[i].params.timezone = calls[j].params.timezone

\* C20: two finished calls with the same birth time and timezone, answered by
\* the same provider, end the same way with identical results, whatever
\* their latitude and longitude and whatever calls came before them.
C20_Deterministic ==
    \A i, j \in CallIds :
        (Finished(i) /\ Finished(j) /\ SameBirth(i, j)) =>
            /\ calls[i].pc = calls[j].pc
            /\ calls[i].value = calls[j].value
            /\ calls[i].error = calls[j].error

\* two returned charts for the same birth, the second call given another
\* latitude and longitude and preceded by the first
C20_Witness ==
    \E i, j \in CallIds :
        /\ i < j
        /\ Returned(i) /\ Returned(j)
        /\ SameBirth(i, j)
        /\ coordinatesOf(calls[i].params).latitude
              # coordinatesOf(calls[j].params).latitude
        /\ coordinatesOf(calls[i].params).longitude
              # coordinatesOf(calls[j].params).longitude
        /\ calls[i].value.gates = calls[j].value.gates
        /\ calls[i].value.Type = calls[j].value.Type

---------------------------------------------------------------------------
(* Claims about the profile and the cross, checked under SpecCross *)

\* the cross type the claim gives for a Personality Sun line
CrossTypeOfLine(line) ==
    IF line \in {1, 2, 3} THEN "Right Angle Cross"
    ELSE IF line \in {4, 5} THEN "Juxtaposition Cross"
    ELSE "Left Angle Cross"

\* C21: the Profile is the Personality Sun line followed by the Design Sun
\* line; the cross type follows the Personality Sun line alone (1-3 Right
\* Angle, 4-5 Juxtaposition, 6 Left Angle); the label carries the theme of the
\* Personality Sun gate and the gates of Personality Sun, Personality Earth,
\* Design Sun and Design Earth; the theme of every gate 1..64 is defined.
C21_ProfileAndCross ==
    /\ \A g \in 1..64 : getCrossName(g) # "Unknown"
    /\ Crossed =>
          LET p == cross.personalityPlanets
              d == cross.designPlanets
          IN  /\ cross.profile = <<p.Sun.Line, d.Sun.Line>>
              /\ p.Sun.Line \in 1..6
              /\ cross.incarnationCross =
                    <<CrossTypeOfLine(p.Sun.Line), crossNames[p.Sun.Gate],
                      p.Sun.Gate, p.Earth.Gate, d.Sun.Gate, d.Earth.Gate>>

\* a Juxtaposition cross computed for a Personality Sun in line 4 while the
\* Design Sun is in line 1
C21_Witness ==
    /\ Crossed
    /\ cross.profile = <<4, 1>>
    /\ cross.incarnationCross[1] = "Juxtaposition Cross"
    /\ cross.incarnationCross[2] # "Unknown"

---------------------------------------------------------------------------
(* Claims about the static tables, checked under SpecClassifier *)

MotorCenterNames == {"Sacral", "Solar Plexus", "Heart", "Root"}

\* the center pair of the key is the Throat and one motor center
ThroatAndMotor(channelKey) ==
    LET centerPair == channelToCenters[channelKey]
    IN  \/ centerPair[1] = "Throat" /\ centerPair[2] \in MotorCenterNames
        \/ centerPair[2] = "Throat" /\ centerPair[1] \in MotorCenterNames

\* C22: every entry of the motor-to-throat list is a key of the channel
\* catalog, and its center pair in channelToCenters is the Throat and one of
\* Sacral, Solar Plexus, Heart, Root.
C22_MotorToThroatEntries ==
    Typed =>
        \A i \in 1..Len(motorToThroatChannels) :
            /\ motorToThroatChannels[i] \in Range(channelDefinitions)
            /\ motorToThroatChannels[i] \in DOMAIN channelToCenters
            /\ ThroatAndMotor(motorToThroatChannels[i])

---------------------------------------------------------------------------
(* Further claims about the design-moment solver, checked under SpecSolver *)

\* the solver left by the return after the loop with no best match
FallbackTaken == SolverReturned /\ solver.bestMatch = 0

\* the provider call of the current sample fails
SampleFailing ==
    solver.pc = "await" /\ SunFails(provider, currentJulianDay(solver))

\* a failed sample changes nothing but the position of the scan, which goes
\* on to the next sample
SkipFailedSample ==
    SampleFailing =>
        /\ solver'.pc = "loop"
        /\ solver'.i = solver.i + 1
        /\ solver'.bestMatch = solver.bestMatch
        /\ solver'.bestDifference = solver.bestDifference

\* the result is an answered sample whenever one exists, and the fallback
\* return is taken exactly when no sample was answered
ChosenAmongEvaluated ==
    SolverReturned =>
        /\ Evaluated # {} =>
              \E i \in Evaluated : solver.result = SampleInstant(i)
        /\ FallbackTaken <=> Evaluated = {}
        /\ FallbackTaken =>
              solver.result = solver.personalityJulianDay - FallbackBackTicks

\* C23: a provider failure on a sample does not end the scan: the sample is
\* skipped and the scan goes on with the next one; the result is one of the
\* answered samples, and the fallback birth - 88.5 days is returned only when
\* no sample was answered.
C23_FailedSamplesSkipped ==
    []ChosenAmongEvaluated /\ [][SkipFailedSample]_vars

\* the scan passed a failed sample and returned a later, answered one
C23_Witness ==
    /\ SolverReturned
    /\ \E j \in Samples \ Evaluated, i \in Evaluated :
          /\ j < i
          /\ solver.result = SampleInstant(i)
          /\ solver.calls > j + 1

\* the provider calls issued so far are those of the samples before the
\* current one, plus the one being awaited: no call starts before the
\* previous one has resolved or rejected
OneCallAtATime ==
    solver.pc \in {"loop", "await"} =>
        solver.calls = solver.i + (IF solver.pc = "await" THEN 1 ELSE 0)

ReturnedInstantInWindow ==
    SolverReturned =>
        /\ \/ \E i \in 0..399 :
                 solver.result = solver.personalityJulianDay
                                    - 95 * TicksPerDay + i
           \/ solver.result = solver.personalityJulianDay - FallbackBackTicks
        /\ solver.result < solver.personalityJulianDay
        /\ solver.personalityJulianDay - solver.result <= 95 * TicksPerDay

\* C24: findDesignDate terminates; it issues at most 400 provider calls, one
\* after another; the instant returned is a sample instant
\* birth - 95 + 0.05 * i, i in 0..399, or birth - 88.5, so it is earlier than
\* birth and at most 95 days before it.
C24_TerminatesInWindow ==
    /\ [](solver.pc # "idle" => solver.calls <= 400)
    /\ []OneCallAtATime
    /\ []ReturnedInstantInWindow
    /\ <>SolverReturned

\* a scan that used all 400 calls and returned the last sample
C24_Witness ==
    /\ SolverReturned
    /\ solver.calls = 400
    /\ solver.result = solver.personalityJulianDay - 95 * TicksPerDay + 399

---------------------------------------------------------------------------
(* Claims about concurrent invocations, checked under SpecInterleaved *)

\* how an invocation ended
OutcomeOf(id) ==
    [pc |-> calls[id].pc, value |-> calls[id].value, error |-> calls[id].error]

\* C25: whatever the order in which the continuations of two invocations in
\* flight run, each invocation ends exactly as it ends when run alone, and the
\* fields of the calculator keep the values the constructor gave them.
C25_NoSharedState ==
    /\ calculator = HDKitCalculator
    /\ \A id \in ConcurrentIds :
          Finished(id) => OutcomeOf(id) = chartAlone(provider, calls[id].params)

\* both invocations, in flight together from the start, returned their own,
\* different charts
C25_Witness ==
    /\ Returned(1) /\ Returned(2)
    /\ calls[1].value # calls[2].value
    /\ calls[1].value = chartAlone(provider, calls[1].params).value
    /\ calls[2].value = chartAlone(provider, calls[2].params).value

---------------------------------------------------------------------------
(* Claims about the routes, checked under SpecRoutes *)

CompositeRoute == request.route = "/hd-data-composite"

\* the calculateChart calls the composite route makes, run alone
FirstChart ==
    chartAlone(provider, chartParams(request.birthMoment1,
                                     request.query.timezone, London))

SecondChart ==
    chartAlone(provider, chartParams(request.birthMoment2,
                                     request.query.timezone1, NewYork))

\* the request passed validation
Validated == request.pc # "arrived" /\ request.birthMoment1 # 0

\* C26: in the composite route the merge is made only once both charts have
\* been computed, from exactly those charts; when either computation fails
\* nothing is merged and the answer is a 500 whose body holds the error, the
\* message and at most the details: no combined result and no chart.
C26_MergeAfterBoth ==
    (CompositeRoute /\ Validated) =>
        /\ request.composite # <<>> =>
              /\ FirstChart.pc = "returned" /\ request.chart1 = FirstChart.value
              /\ SecondChart.pc = "returned"
              /\ request.chart2 = SecondChart.value
              /\ request.composite =
                     calculateComposite(FirstChart.value, SecondChart.value)
        /\ request.chart2 # <<>> => request.chart1 # <<>>
        /\ (Sent /\ (FirstChart.pc = "rejected" \/ SecondChart.pc = "rejected"))
              => /\ request.composite = <<>>
                 /\ request.response.status = 500
                 /\ DOMAIN request.response.body
                       \subseteq {"error", "message", "details"}
        /\ (Sent /\ request.response.status = 200)
              => /\ request.composite # <<>>
                 /\ request.response.body["Combined"] = request.composite

\* the first chart was computed, the second failed, and a 500 was sent
C26_Witness ==
    /\ CompositeRoute /\ Sent
    /\ request.chart1 # <<>>
    /\ SecondChart.pc = "rejected"
    /\ request.response.status = 500

\* both charts were computed and merged
C26_WitnessMerged ==
    /\ CompositeRoute /\ Sent
    /\ request.response.status = 200
    /\ request.chart1 # request.chart2

\* the instant findDesignDate returns for the chart of the /hd-data request
DesignInstant ==
    LET julianDay == utcInstant(request.params)
        pPlanets == positionsAlone(provider, julianDay, 1, <<>>)
    IN  scanAlone(provider,
                  findDesignDateEntry(julianDay,
                                      pPlanets.Sun.eclipticLongitude))

Answered ==
    /\ request.route = "/hd-data"
    /\ Sent
    /\ request.response.status = 200

\* C28: the DesignDateUtc of a /hd-data response names the instant
\* findDesignDate returned, at which the Design activations of the response
\* were computed.
C28_DesignDateReported ==
    Answered =>
        request.response.body.DesignDateUtc = formatMinute(DesignInstant)

---------------------------------------------------------------------------
(* Claims about the assembled chart, checked under SpecAssembly *)

MotorDefined ==
    \E center \in {centers.SACRAL, centers.SOLAR_PLEXUS, centers.HEART,
                   centers.ROOT} : Includes(definedCenters, center)

\* C27: in an assembled chart, Manifestor and Manifesting Generator have the
\* Throat and at least one motor center defined, and the type is Generator
\* or Manifesting Generator exactly when the Sacral is defined.
C27_TypeMatchesCenters ==
    Assembled =>
        /\ type \in {hdTypes.MANIFESTOR, hdTypes.MANIFESTING_GENERATOR}
              => Includes(definedCenters, centers.THROAT) /\ MotorDefined
        /\ type \in {hdTypes.GENERATOR, hdTypes.MANIFESTING_GENERATOR}
              <=> Includes(definedCenters, centers.SACRAL)

\* every catalog channel has its pair of centers, and the two differ
PairsComplete ==
    \A key \in Range(channelDefinitions) :
        /\ key \in DOMAIN channelToCenters
        /\ channelToCenters[key][1] # channelToCenters[key][2]

\* defined centers of charts a composite can be merged with
OtherCenters ==
    {calculateDefinedCenters(calculateChannels(other)) :
        other \in {<<>>, <<1, 8>>, <<26, 44>>}}

\* C29: in an assembled chart the defined centers are empty exactly when no
\* channel is formed and are never exactly one, alone or merged with those
\* of another chart, and the type is Reflector exactly when no channel is
\* formed.
C29_NoSingleCenter ==
    /\ PairsComplete
    /\ Assembled =>
          /\ definedCenters = <<>> <=> channels = <<>>
          /\ Len(definedCenters) # 1
          /\ \A other \in OtherCenters :
                Len(UniqueConcat(definedCenters, other)) # 1
          /\ type = hdTypes.REFLECTOR <=> channels = <<>>

\* a chart with channels and one without have been assembled
C29_Witness ==
    /\ Assembled
    /\ Len(channels) = 1 /\ Len(definedCenters) = 2
    /\ type # hdTypes.REFLECTOR
    /\ calculateDefinition(definedCenters, channels) = "Single Definition"

C29_WitnessReflector ==
    Assembled /\ channels = <<>> /\ gates # <<>> /\ type = hdTypes.REFLECTOR

---------------------------------------------------------------------------
(* Claims about the derived bodies, checked under SpecPositions *)

\* the activation derived is half a circle from the one queried
Opposite(queried, derived) ==
    /\ eclipticToGateIndex(derived.eclipticLongitude)
          = (eclipticToGateIndex(queried.eclipticLongitude) + 32) % 64
    /\ derived.Line = queried.Line
    /\ derived.Color = queried.Color
    /\ derived.Tone = queried.Tone
    /\ derived.Base = queried.Base

====
